---- MODULE Spec2Model ----
(***************************************************************************)
(* TagoTiP codec and TagoTiP/S envelope (tagotip-codec, tagotip-secure).   *)
(*                                                                         *)
(* Conventions of the model.                                               *)
(*  - A byte string (&str, &[u8]) of the plaintext codec is a sequence of  *)
(*    one-character strings; byte 0 is the token NUL, 0x0A is LF and 0x5C  *)
(*    is BSL.  Envelope bytes are integers 0..255.                         *)
(*  - Rust indices are 0-based and slices are half-open; the model is      *)
(*    1-based: Rust index i is position i + 1, and the slice s[a..b] is    *)
(*    Slice(s, a + 1, b + 1).                                              *)
(*  - Option<T> is a sequence: None is << >>, Some(x) is <<x>>.            *)
(*  - Result<T, E> is a record [ok, err, val]; a ParseError is modelled by *)
(*    its kind (the byte position it carries is diagnostic only).          *)
(*  - A loop that carries state is the operator Loop: the loop body is    *)
(*    applied to the loop state (the loop's local variables, with `i` the  *)
(*    index and `done` set by an early return or break) once per           *)
(*    iteration.  A loop that only looks for a byte is the position of     *)
(*    the first byte it stops at (FirstStop).                              *)
(*  - A `let x = e;` whose value is used more than once is written         *)
(*    Force(e, LAMBDA x : ..), which evaluates e once.  The arguments an   *)
(*    operator is given are values already evaluated in this way, or       *)
(*    fields of such values.                                               *)
(***************************************************************************)
EXTENDS Integers, Sequences, FiniteSets, TLC

VARIABLES
  pc,        \* position of the caller: which call it makes next
  shape,     \* how the current input was put together (its parts)
  input,     \* the bytes handed to the parser
  frame,     \* the parser's result
  bufcap,    \* length of the caller's output buffer
  output,    \* the builder's result and the buffer after the call
  features,  \* cipher suites compiled in (cargo features)
  sealargs,  \* arguments of the last seal call
  oracle,    \* what the AEAD library has encrypted so far
  wire,      \* envelope bytes on the wire
  opened     \* result of the last open / header parse

vars == <<pc, shape, input, frame, bufcap, output, features, sealargs, oracle,
          wire, opened>>

codecVars  == <<shape, input, frame, bufcap, output>>
secureVars == <<features, sealargs, oracle, wire, opened>>

-----------------------------------------------------------------------------
(* Bytes and byte classes *)

NUL == "NUL"
LF  == "\n"
BSL == "\\"

Digit == {"0", "1", "2", "3", "4", "5", "6", "7", "8", "9"}
Lower == {"a", "b", "c", "d", "e", "f", "g", "h", "i", "j", "k", "l", "m",
          "n", "o", "p", "q", "r", "s", "t", "u", "v", "w", "x", "y", "z"}
Upper == {"A", "B", "C", "D", "E", "F", "G", "H", "I", "J", "K", "L", "M",
          "N", "O", "P", "Q", "R", "S", "T", "U", "V", "W", "X", "Y", "Z"}
HexDigit == Digit \cup {"a", "b", "c", "d", "e", "f"}
                  \cup {"A", "B", "C", "D", "E", "F"}
Alphanumeric == Digit \cup Lower \cup Upper

DigitSeq == <<"0", "1", "2", "3", "4", "5", "6", "7", "8", "9">>
DigitVal(b) == (CHOOSE k \in 1..10 : DigitSeq[k] = b) - 1

-----------------------------------------------------------------------------
(* Generic helpers *)

None == << >>
Some(x) == <<x>>
IsSome(o) == Len(o) = 1

Ok(v) == [ok |-> TRUE, err |-> "None", val |-> v]
Err(kind) == [ok |-> FALSE, err |-> kind, val |-> << >>]

\* F applied to the value of x: x is evaluated once, before F is applied.
Force(x, F(_)) == CHOOSE r \in {F(v) : v \in {x}} : TRUE

\* The sequence f as a tuple of evaluated elements.
Tup(f) == f \o << >>

Slice(s, from, to) == SubSeq(s, from, to - 1)
StartsWith(s, p) == Len(s) >= Len(p) /\ SubSeq(s, 1, Len(p)) = p
EndsWith(s, p) == Len(s) >= Len(p) /\ SubSeq(s, Len(s) - Len(p) + 1, Len(s)) = p
Rep(b, n) == [k \in 1..n |-> b]

\* The least element of a non-empty set of integers.
Least(S) == CHOOSE k \in S : \A j \in S : k <= j

\* The elements of a set of integers in increasing order.
Sorted(S0) ==
  Force(S0, LAMBDA S :
    Force({<<Cardinality({y \in S : y < x}) + 1, x>> : x \in S}, LAMBDA ranked :
      Tup([k \in 1..Cardinality(S) |-> (CHOOSE r \in ranked : r[1] = k)[2]])))

\* A u32 is the pair of its 16-bit halves, value = hi * Half + lo.
Half == 256 * 256
U32(hi, lo) == [hi |-> hi, lo |-> lo]
U32Zero == U32(0, 0)
\* checked_mul(10) then checked_add(d): None on overflow of 32 bits.
U32MulAdd(v, d) ==
  IF v.hi * 10 + (v.lo * 10 + d) \div Half >= Half THEN None
  ELSE Some(U32(v.hi * 10 + (v.lo * 10 + d) \div Half, (v.lo * 10 + d) % Half))
\* v / 10 and v % 10.
U32Div10(v) == U32(v.hi \div 10, ((v.hi % 10) * Half + v.lo) \div 10)
U32Mod10(v) == ((v.hi % 10) * Half + v.lo) % 10

\* The loop `while !done && i <= last { st = Body(st) }` over the loop state
\* st, run for at most n iterations (n is a bound on the number of iterations
\* the loop can make).  The iterations are halved so that the evaluation depth
\* is logarithmic in n; the first half is evaluated to a value before the
\* second half starts.
Loop(Body(_), st0, last, n) ==
  LET RECURSIVE Run(_, _)
      Run(k, st) ==
        IF k <= 1
        THEN (IF k = 1 /\ ~st.done /\ st.i <= last THEN Body(st) ELSE st)
        ELSE Force(Run(k \div 2, st), LAMBDA half : Run(k - k \div 2, half))
  IN Run(n, st0)

\* The byte-scanning loops of the parsers all walk the bytes of s from a
\* position p in the same way:
\*     while i < len {
\*         if bytes[i] == b'\\' && i + 1 < len { i += 2; continue; }
\*         <test bytes[i]>; i += 1;
\*     }
\* A backslash that has a byte after it is stepped over together with that
\* byte and neither is tested.  Escapes(s, p) is the set of the positions from
\* p on that hold a backslash.  The walk lands on position i iff the run of
\* backslashes that ends just before i, counted back to p at most, has even
\* length; it tests the byte at i iff it lands on i and the byte is not a
\* backslash with a byte after it.
Escapes(s, p) == {j \in p..Len(s) : s[j] = BSL}

\* The position before the run of backslashes that ends just before i.
RunStart(B, p, i) ==
  CHOOSE q \in (p - 1)..(i - 1) :
    (q = p - 1 \/ q \notin B) /\ \A j \in (q + 1)..(i - 1) : j \in B

Landed(B, p, i) == (i - 1) \notin B \/ (i - 1 - RunStart(B, p, i)) % 2 = 0

Tested(s, B, p, i) == Landed(B, p, i) /\ ~(s[i] = BSL /\ i < Len(s))

\* The positions from p on whose byte the walk tests and StopAt holds for.
StopsFrom(s, p, StopAt(_)) ==
  Force(Escapes(s, p), LAMBDA B : {i \in p..Len(s) : StopAt(i) /\ Tested(s, B, p, i)})

\* The position the walk returns at: the first tested position where StopAt
\* holds, Len(s) + 1 when the walk reaches the end.
FirstStop(s, p, StopAt(_)) == Least(StopsFrom(s, p, StopAt) \cup {Len(s) + 1})

\* The pieces of s between the separators at the positions of bd, in order:
\* [start, end] with end the position after the piece (the separator or
\* Len(s) + 1).
Pieces(s, bd) ==
  Force(Sorted(bd \cup {Len(s) + 1}), LAMBDA ends :
    Tup([k \in 1..Len(ends) |->
           [start |-> IF k = 1 THEN 1 ELSE ends[k - 1] + 1, end |-> ends[k]]]))

-----------------------------------------------------------------------------
(* consts.rs *)

MAX_VARIABLES == 100
MAX_META_PAIRS == 32
MAX_VARNAME_LEN == 100
MAX_SERIAL_LEN == 100
MAX_GROUP_LEN == 100
MAX_META_KEY_LEN == 100
MAX_UNIT_LEN == 25
MAX_FRAME_SIZE == 16384
AUTH_TOKEN_LEN == 34
MAX_UPLINK_FIELDS == 8
MAX_ACK_FIELDS == 4
MAX_TOTAL_META == 512

-----------------------------------------------------------------------------
(* inline_vec.rs *)

\* A push that never finds the vector full.
VecPushUnbounded(vec, value, N) == [ok |-> TRUE, vec |-> Append(vec, value)]

\* InlineVec<T, N>::push: Err(value) and no change when len >= N.
VecPush(vec, value, N) ==
  IF Len(vec) >= N THEN [ok |-> FALSE, vec |-> vec]
  ELSE [ok |-> TRUE, vec |-> Append(vec, value)]

\* A pop that returns the last element and leaves it in the vector.
VecPopKeepsLength(vec) ==
  IF Len(vec) = 0 THEN [some |-> FALSE, value |-> << >>, vec |-> vec]
  ELSE [some |-> TRUE, value |-> vec[Len(vec)], vec |-> vec]

\* InlineVec::pop: None and no change when len = 0.
VecPop(vec) ==
  IF Len(vec) = 0 THEN [some |-> FALSE, value |-> << >>, vec |-> vec]
  ELSE [some |-> TRUE, value |-> vec[Len(vec)], vec |-> SubSeq(vec, 1, Len(vec) - 1)]

\* InlineVec::clear: len = 0.
VecClear(vec) == << >>

-----------------------------------------------------------------------------
(* validate.rs *)

NameByte(b) == b \in Lower \/ b \in Digit \/ b = "_"

validate_varname(name) ==
  IF name = << >> THEN Err("InvalidField")
  ELSE IF Len(name) > MAX_VARNAME_LEN THEN Err("InvalidField")
  ELSE IF \E k \in 1..Len(name) : ~NameByte(name[k]) THEN Err("InvalidField")
  ELSE Ok(<< >>)

\* A serial check without the length cap.
ValidateSerialUncapped(serial) ==
  IF serial = << >> THEN Err("InvalidSerial")
  ELSE IF \E k \in 1..Len(serial) :
            ~(serial[k] \in Alphanumeric \/ serial[k] = "-" \/ serial[k] = "_")
       THEN Err("InvalidSerial")
  ELSE Ok(<< >>)

validate_serial(serial) ==
  IF serial = << >> THEN Err("InvalidSerial")
  ELSE IF Len(serial) > MAX_SERIAL_LEN THEN Err("InvalidSerial")
  ELSE IF \E k \in 1..Len(serial) :
            ~(serial[k] \in Alphanumeric \/ serial[k] = "-" \/ serial[k] = "_")
       THEN Err("InvalidSerial")
  ELSE Ok(<< >>)

validate_group(group) ==
  IF group = << >> THEN Err("InvalidField")
  ELSE IF Len(group) > MAX_GROUP_LEN THEN Err("InvalidField")
  ELSE IF \E k \in 1..Len(group) : ~NameByte(group[k]) THEN Err("InvalidField")
  ELSE Ok(<< >>)

validate_meta_key(key) ==
  IF key = << >> THEN Err("InvalidMetadata")
  ELSE IF Len(key) > MAX_META_KEY_LEN THEN Err("InvalidMetadata")
  ELSE IF \E k \in 1..Len(key) : ~NameByte(key[k]) THEN Err("InvalidMetadata")
  ELSE Ok(<< >>)

validate_unit(unit) ==
  IF unit = << >> THEN Err("InvalidField")
  ELSE IF Len(unit) > MAX_UNIT_LEN THEN Err("InvalidField")
  ELSE Ok(<< >>)

\* `while i < len && bytes[i].is_ascii_digit() { i += 1 }` from position from:
\* the first position that holds no digit, Len + 1 when there is none.
DigitRunEnd(bytes, from) ==
  Least({k \in from..Len(bytes) : bytes[k] \notin Digit} \cup {Len(bytes) + 1})

\* A validation that lets the integer part start with any digit.
ValidateNumberLeadingZeros(s) ==
  LET len == Len(s)
      i0 == IF 1 <= Len(s) /\ s[1] = "-" THEN 2 ELSE 1
      i1 == DigitRunEnd(s, i0 + 1)
  IN IF i0 > len THEN Err("InvalidVariable")
     ELSE IF s[i0] \notin Digit THEN Err("InvalidVariable")
     ELSE IF i1 <= len /\ s[i1] = "."
     THEN IF i1 + 1 > len \/ s[i1 + 1] \notin Digit THEN Err("InvalidVariable")
          ELSE IF DigitRunEnd(s, i1 + 1) # len + 1 THEN Err("InvalidVariable")
          ELSE Ok(<< >>)
     ELSE IF i1 # len + 1 THEN Err("InvalidVariable")
     ELSE Ok(<< >>)

\* `-?(0|[1-9][0-9]*)(\.[0-9]+)?`
validate_number(s) ==
  LET len == Len(s)
      i0 == IF 1 <= Len(s) /\ s[1] = "-" THEN 2 ELSE 1
      i1 == IF s[i0] = "0" THEN i0 + 1 ELSE DigitRunEnd(s, i0 + 1)
  IN IF i0 > len THEN Err("InvalidVariable")
     ELSE IF s[i0] \notin Digit THEN Err("InvalidVariable")
     ELSE IF i1 <= len /\ s[i1] = "."
     THEN IF i1 + 1 > len \/ s[i1 + 1] \notin Digit THEN Err("InvalidVariable")
          ELSE IF DigitRunEnd(s, i1 + 1) # len + 1 THEN Err("InvalidVariable")
          ELSE Ok(<< >>)
     ELSE IF i1 # len + 1 THEN Err("InvalidVariable")
     ELSE Ok(<< >>)

-----------------------------------------------------------------------------
(* parse/frame.rs *)

\* split_fields, with the capacity N of the field vector as a parameter: the
\* input is cut at the pipes the walk tests; once N - 1 fields are pushed the
\* rest of the input is the last field.
SplitFieldsN(in, N) ==
  Force(Pieces(in, StopsFrom(in, 1, LAMBDA i : in[i] = "|")), LAMBDA pieces :
    IF Len(pieces) <= N - 1
    THEN Tup([k \in 1..Len(pieces) |-> Slice(in, pieces[k].start, pieces[k].end)])
    ELSE Tup([k \in 1..N |->
                Slice(in, pieces[k].start,
                      IF k = N THEN Len(in) + 1 ELSE pieces[k].end)]))

split_fields(in) == SplitFieldsN(in, MAX_UPLINK_FIELDS)

parse_method(s) ==
  IF s = <<"P", "U", "S", "H">> THEN Ok("Push")
  ELSE IF s = <<"P", "U", "L", "L">> THEN Ok("Pull")
  ELSE IF s = <<"P", "I", "N", "G">> THEN Ok("Ping")
  ELSE Err("InvalidMethod")

\* parse_u32: None on an empty string, a non-digit, or u32 overflow
\* (checked_mul, checked_add).
parse_u32(s) ==
  LET Body(st) ==
        IF s[st.i] \notin Digit THEN [st EXCEPT !.done = TRUE, !.none = TRUE]
        ELSE Force(U32MulAdd(st.result, DigitVal(s[st.i])), LAMBDA r :
               IF r = None THEN [st EXCEPT !.done = TRUE, !.none = TRUE]
               ELSE [st EXCEPT !.result = r[1], !.i = @ + 1])
  IN IF s = << >> THEN None
     ELSE Force(Loop(Body, [i |-> 1, done |-> FALSE, none |-> FALSE,
                            result |-> U32Zero], Len(s), Len(s)),
                LAMBDA end : IF end.none THEN None ELSE Some(end.result))

parse_seq(s) ==
  IF ~StartsWith(s, <<"!">>) THEN Err("InvalidSeq")
  ELSE Force(Slice(s, 2, Len(s) + 1), LAMBDA num_str :
         IF num_str = << >> THEN Err("InvalidSeq")
         ELSE IF Len(num_str) > 1 /\ num_str[1] = "0" THEN Err("InvalidSeq")
         ELSE Force(parse_u32(num_str), LAMBDA v :
                IF v = None THEN Err("InvalidSeq") ELSE Ok(v[1])))

\* A validation of the token that does not look at its length.
ValidateAuthAnyLength(s) ==
  IF ~StartsWith(s, <<"a", "t">>) THEN Err("InvalidAuth")
  ELSE IF \E k \in 3..Len(s) : s[k] \notin HexDigit THEN Err("InvalidAuth")
  ELSE Ok(<< >>)

validate_auth(s) ==
  IF Len(s) # AUTH_TOKEN_LEN THEN Err("InvalidAuth")
  ELSE IF ~StartsWith(s, <<"a", "t">>) THEN Err("InvalidAuth")
  ELSE IF \E k \in 3..Len(s) : s[k] \notin HexDigit THEN Err("InvalidAuth")
  ELSE Ok(<< >>)

extract_serial(s) == IF validate_serial(s).ok THEN Ok(s) ELSE Err(validate_serial(s).err)

-----------------------------------------------------------------------------
(* parse/variable.rs *)

scan_until_any(bytes, pos, stops) == FirstStop(bytes, pos, LAMBDA i : bytes[i] \in stops)

scan_value(bytes, pos) ==
  FirstStop(bytes, pos, LAMBDA i : bytes[i] \in {"#", "@", "^", "{"})

find_closing_brace(bytes, start) ==
  Force(FirstStop(bytes, start, LAMBDA i : bytes[i] = "}"), LAMBDA r :
    IF r > Len(bytes) THEN None ELSE Some(r))

\* The test find_operator makes at position i: `:=`, `?=`, `@=` or `=`.
OperatorAt(bytes, i) ==
  IF i + 1 <= Len(bytes) /\ bytes[i + 1] = "=" /\ bytes[i] = ":" THEN "Number"
  ELSE IF i + 1 <= Len(bytes) /\ bytes[i + 1] = "=" /\ bytes[i] = "?" THEN "Boolean"
  ELSE IF i + 1 <= Len(bytes) /\ bytes[i + 1] = "=" /\ bytes[i] = "@" THEN "Location"
  ELSE IF bytes[i] = "=" THEN "String"
  ELSE "None"

\* A search that takes the first two-byte operator wherever it is, and a
\* single `=` only when there is none.
FindOperatorTwoByteFirst(bytes) ==
  Force(FirstStop(bytes, 1, LAMBDA i : OperatorAt(bytes, i) \notin {"None", "String"}),
        LAMBDA two :
    Force(IF two <= Len(bytes) THEN two
          ELSE FirstStop(bytes, 1, LAMBDA i : OperatorAt(bytes, i) # "None"),
          LAMBDA pos :
      IF pos > Len(bytes)
      THEN [ok |-> FALSE, op_pos |-> 0, op_len |-> 0, operator |-> "None"]
      ELSE [ok |-> TRUE, op_pos |-> pos,
            op_len |-> IF OperatorAt(bytes, pos) = "String" THEN 1 ELSE 2,
            operator |-> OperatorAt(bytes, pos)]))

\* find_operator: [ok, op_pos, op_len, operator].
find_operator(bytes) ==
  Force(FirstStop(bytes, 1, LAMBDA i : OperatorAt(bytes, i) # "None"), LAMBDA pos :
    IF pos > Len(bytes)
    THEN [ok |-> FALSE, op_pos |-> 0, op_len |-> 0, operator |-> "None"]
    ELSE [ok |-> TRUE, op_pos |-> pos,
          op_len |-> IF OperatorAt(bytes, pos) = "String" THEN 1 ELSE 2,
          operator |-> OperatorAt(bytes, pos)])

validate_timestamp(s) ==
  IF s = << >> THEN Err("InvalidVariable")
  ELSE IF \E k \in 1..Len(s) : s[k] \notin Digit THEN Err("InvalidVariable")
  ELSE Ok(<< >>)

\* parse_location: s.splitn(4, ',') splits at every comma byte; two or three
\* parts are a location, one part or a fourth part is an error.
parse_location(s) ==
  Force(Sorted({k \in 1..Len(s) : s[k] = ","}), LAMBDA c :
    IF Len(c) = 0 THEN Err("InvalidVariable")
    ELSE IF Len(c) > 2 THEN Err("InvalidVariable")
    ELSE Force([lat |-> Slice(s, 1, c[1]),
                lng |-> Slice(s, c[1] + 1, IF Len(c) = 2 THEN c[2] ELSE Len(s) + 1),
                alt |-> IF Len(c) = 2 THEN Some(Slice(s, c[2] + 1, Len(s) + 1))
                        ELSE None],
               LAMBDA part :
           IF part.lat = << >> \/ part.lng = << >> THEN Err("InvalidVariable")
           ELSE IF ~validate_number(part.lat).ok THEN Err("InvalidVariable")
           ELSE IF ~validate_number(part.lng).ok THEN Err("InvalidVariable")
           ELSE IF part.alt # None
           THEN IF part.alt[1] = << >> THEN Err("InvalidVariable")
                ELSE IF ~validate_number(part.alt[1]).ok THEN Err("InvalidVariable")
                ELSE Ok([tag |-> "Location", lat |-> part.lat, lng |-> part.lng,
                         alt |-> part.alt])
           ELSE Ok([tag |-> "Location", lat |-> part.lat, lng |-> part.lng,
                    alt |-> None])))

parse_value(s, op) ==
  IF op = "Number"
  THEN IF s = << >> THEN Err("InvalidVariable")
       ELSE IF ~validate_number(s).ok THEN Err("InvalidVariable")
       ELSE Ok([tag |-> "Number", s |-> s])
  ELSE IF op = "String"
  THEN IF s = << >> THEN Err("InvalidVariable")
       ELSE Ok([tag |-> "String", s |-> s])
  ELSE IF op = "Boolean"
  THEN IF s = <<"t", "r", "u", "e">> THEN Ok([tag |-> "Boolean", b |-> TRUE])
       ELSE IF s = <<"f", "a", "l", "s", "e">> THEN Ok([tag |-> "Boolean", b |-> FALSE])
       ELSE Err("InvalidVariable")
  ELSE parse_location(s)

\* parse_meta_pair: split at the first `=` the walk tests.
parse_meta_pair(s) ==
  Force(FirstStop(s, 1, LAMBDA i : s[i] = "="), LAMBDA eq :
    IF eq > Len(s) THEN Err("InvalidMetadata")
    ELSE Force(Slice(s, 1, eq), LAMBDA key :
           IF ~validate_meta_key(key).ok THEN Err(validate_meta_key(key).err)
           ELSE Ok([key |-> key, value |-> Slice(s, eq + 1, Len(s) + 1)])))

\* parse_metadata: the content between `{` and `}`, cut at the commas the walk
\* tests.  The loop handles the pieces in order: an empty piece is skipped, a
\* piece that is no pair ends the parse with its error, a pair is pushed to
\* the block, which holds at most MAX_META_PAIRS pairs.
parse_metadata(s) ==
  IF s = << >> THEN Err("InvalidMetadata")
  ELSE
  Force(Pieces(s, StopsFrom(s, 1, LAMBDA i : s[i] = ",")), LAMBDA pieces :
    Force(Tup([k \in 1..Len(pieces) |->
                 IF pieces[k].start = pieces[k].end THEN Ok(<< >>)
                 ELSE Force(Slice(s, pieces[k].start, pieces[k].end),
                            LAMBDA pair_str : parse_meta_pair(pair_str))]),
          LAMBDA pair :
      LET Body(st) ==
            IF pieces[st.i].start = pieces[st.i].end THEN [st EXCEPT !.i = @ + 1]
            ELSE IF ~pair[st.i].ok THEN [st EXCEPT !.done = TRUE, !.err = pair[st.i].err]
            ELSE IF ~VecPush(st.block, pair[st.i].val, MAX_META_PAIRS).ok
            THEN [st EXCEPT !.done = TRUE, !.err = "TooManyItems"]
            ELSE [st EXCEPT
                    !.block = VecPush(st.block, pair[st.i].val, MAX_META_PAIRS).vec,
                    !.i = @ + 1]
      IN Force(Loop(Body, [i |-> 1, done |-> FALSE, block |-> << >>, err |-> "None"],
                    Len(pieces), Len(pieces)),
               LAMBDA end :
                 IF end.err # "None" THEN Err(end.err)
                 ELSE IF end.block = << >> THEN Err("InvalidMetadata")
                 ELSE Ok(end.block))))

\* The state of parse_variable after the value: the position reached and the
\* suffixes read so far; ok is FALSE once a `?` or `return Err` has ended the
\* parse with err.
SuffixStart(pos) ==
  [ok |-> TRUE, err |-> "None", pos |-> pos, unit |-> None, timestamp |-> None,
   group |-> None, meta_pairs |-> None]

SuffixErr(st, kind) == [st EXCEPT !.ok = FALSE, !.err = kind]

\* The four `if pos < len && bytes[pos] == marker { .. }` blocks of parse_variable,
\* each on the state the block before it left.
SuffixUnit(s, operator, st0) ==
  Force(st0, LAMBDA st :
    IF ~st.ok THEN st
    ELSE IF st.pos <= Len(s) /\ s[st.pos] = "#"
    THEN IF operator = "Location" THEN SuffixErr(st, "InvalidVariable")
         ELSE Force(scan_until_any(s, st.pos + 1, {"@", "^", "{"}), LAMBDA pos :
                Force(Slice(s, st.pos + 1, pos), LAMBDA u :
                  IF ~validate_unit(u).ok THEN SuffixErr(st, validate_unit(u).err)
                  ELSE [st EXCEPT !.pos = pos, !.unit = Some(u)]))
    ELSE st)

SuffixTimestamp(s, st0) ==
  Force(st0, LAMBDA st :
    IF ~st.ok THEN st
    ELSE IF st.pos <= Len(s) /\ s[st.pos] = "@"
    THEN Force(scan_until_any(s, st.pos + 1, {"^", "{"}), LAMBDA pos :
           Force(Slice(s, st.pos + 1, pos), LAMBDA ts :
             IF ~validate_timestamp(ts).ok THEN SuffixErr(st, validate_timestamp(ts).err)
             ELSE [st EXCEPT !.pos = pos, !.timestamp = Some(ts)]))
    ELSE st)

SuffixGroup(s, st0) ==
  Force(st0, LAMBDA st :
    IF ~st.ok THEN st
    ELSE IF st.pos <= Len(s) /\ s[st.pos] = "^"
    THEN Force(scan_until_any(s, st.pos + 1, {"{"}), LAMBDA pos :
           Force(Slice(s, st.pos + 1, pos), LAMBDA g :
             IF ~validate_group(g).ok THEN SuffixErr(st, validate_group(g).err)
             ELSE [st EXCEPT !.pos = pos, !.group = Some(g)]))
    ELSE st)

SuffixMeta(s, st0) ==
  Force(st0, LAMBDA st :
    IF ~st.ok THEN st
    ELSE IF st.pos <= Len(s) /\ s[st.pos] = "{"
    THEN Force(find_closing_brace(s, st.pos + 1), LAMBDA end :
           IF end = None THEN SuffixErr(st, "InvalidMetadata")
           ELSE Force(Slice(s, st.pos + 1, end[1]), LAMBDA meta_str :
                  Force(parse_metadata(meta_str), LAMBDA parsed :
                    IF ~parsed.ok THEN SuffixErr(st, parsed.err)
                    ELSE [st EXCEPT !.pos = end[1] + 1,
                                    !.meta_pairs = Some(parsed.val)])))
    ELSE st)

\* The end of parse_variable: the position after the last suffix is dropped
\* (`let _ = pos;`) and the variable is returned with meta None.
VariableOf(name, operator, value, st0) ==
  Force(st0, LAMBDA st :
    IF ~st.ok THEN Err(st.err)
    ELSE Ok([variable |-> [name |-> name, operator |-> operator, value |-> value,
                           unit |-> st.unit, timestamp |-> st.timestamp,
                           group |-> st.group, meta |-> None],
             meta_pairs |-> st.meta_pairs]))

\* parse_variable: Ok([variable, meta_pairs]); the caller adds meta_pairs to
\* the pool and sets variable.meta.
parse_variable(s) ==
  Force(find_operator(s), LAMBDA fo :
    IF ~fo.ok THEN Err("InvalidVariable")
    ELSE Force([name |-> Slice(s, 1, fo.op_pos),
                value_end |-> scan_value(s, fo.op_pos + fo.op_len),
                value_str |-> Slice(s, fo.op_pos + fo.op_len,
                                    scan_value(s, fo.op_pos + fo.op_len))],
               LAMBDA h :
           IF h.name = << >> THEN Err("InvalidVariable")
           ELSE IF ~validate_varname(h.name).ok THEN Err(validate_varname(h.name).err)
           ELSE IF ~parse_value(h.value_str, fo.operator).ok
           THEN Err(parse_value(h.value_str, fo.operator).err)
           ELSE VariableOf(h.name, fo.operator, parse_value(h.value_str, fo.operator).val,
                  SuffixMeta(s, SuffixGroup(s, SuffixTimestamp(s,
                    SuffixUnit(s, fo.operator, SuffixStart(h.value_end))))))))

-----------------------------------------------------------------------------
(* parse/body.rs *)

scan_until_mod(bytes, pos) == FirstStop(bytes, pos, LAMBDA i : bytes[i] \in {"@", "{"})

find_unescaped_byte(bytes, target) ==
  Force(FirstStop(bytes, 1, LAMBDA i : bytes[i] = target), LAMBDA r :
    IF r > Len(bytes) THEN None ELSE Some(r))

\* find_closing_bracket: the walk from start counts depth up at a tested `[`
\* and down at a tested `]`, from depth 1, and returns at the `]` that takes it
\* to 0: the first tested `]` with as many tested `[` as tested `]` between
\* start and it.
find_closing_bracket(bytes, start) ==
  Force([open |-> StopsFrom(bytes, start, LAMBDA i : bytes[i] = "["),
         close |-> Sorted(StopsFrom(bytes, start, LAMBDA i : bytes[i] = "]"))],
        LAMBDA br :
    IF \E k \in 1..Len(br.close) :
         Cardinality({o \in br.open : o < br.close[k]}) = k - 1
    THEN Some(br.close[Least({k \in 1..Len(br.close) :
                 Cardinality({o \in br.open : o < br.close[k]}) = k - 1})])
    ELSE None)

validate_digits(s) ==
  IF s = << >> THEN Err("InvalidModifier")
  ELSE IF \E k \in 1..Len(s) : s[k] \notin Digit THEN Err("InvalidModifier")
  ELSE Ok(<< >>)

\* add_to_pool as it would be if every range started at the head of the pool.
AddToPoolFromZero(pool, pairs) ==
  IF \E k \in 1..Len(pairs) :
       ~VecPush(pool \o SubSeq(pairs, 1, k - 1), pairs[k], MAX_TOTAL_META).ok
  THEN Err("TooManyItems")
  ELSE Ok([pool |-> pool \o pairs, range |-> [start |-> 0, len |-> Len(pairs)]])

\* add_to_pool: the pairs are pushed to the pool one by one; Ok([pool, range])
\* or TooManyItems when a push finds the pool full.
add_to_pool(pool, pairs) ==
  IF \E k \in 1..Len(pairs) :
       ~VecPush(pool \o SubSeq(pairs, 1, k - 1), pairs[k], MAX_TOTAL_META).ok
  THEN Err("TooManyItems")
  ELSE Ok([pool |-> pool \o pairs, range |-> [start |-> Len(pool), len |-> Len(pairs)]])

\* The three arms of the match in parse_body_modifiers, on the loop state st
\* at a marker byte.
ModGroup(s, st) ==
  IF st.phase > 0 THEN [st EXCEPT !.done = TRUE, !.err = "InvalidModifier"]
  ELSE Force(scan_until_mod(s, st.i + 1), LAMBDA pos :
         Force(Slice(s, st.i + 1, pos), LAMBDA g :
           IF ~validate_group(g).ok
           THEN [st EXCEPT !.done = TRUE, !.err = validate_group(g).err]
           ELSE [st EXCEPT !.group = Some(g), !.phase = 1, !.i = pos]))

ModTimestamp(s, st) ==
  IF st.phase > 1 THEN [st EXCEPT !.done = TRUE, !.err = "InvalidModifier"]
  ELSE Force(scan_until_any(s, st.i + 1, {"{"}), LAMBDA pos :
         Force(Slice(s, st.i + 1, pos), LAMBDA ts :
           IF ~validate_digits(ts).ok
           THEN [st EXCEPT !.done = TRUE, !.err = validate_digits(ts).err]
           ELSE [st EXCEPT !.timestamp = Some(ts), !.phase = 2, !.i = pos]))

ModMeta(s, st) ==
  IF st.phase > 2 THEN [st EXCEPT !.done = TRUE, !.err = "InvalidModifier"]
  ELSE Force(Slice(s, st.i + 1, Len(s) + 1), LAMBDA rest :
       Force(find_unescaped_byte(rest, "}"), LAMBDA end :
         IF end = None THEN [st EXCEPT !.done = TRUE, !.err = "InvalidMetadata"]
         ELSE Force(Slice(rest, 1, end[1]), LAMBDA meta_str :
              Force(parse_metadata(meta_str), LAMBDA parsed :
                IF ~parsed.ok THEN [st EXCEPT !.done = TRUE, !.err = parsed.err]
                ELSE Force(add_to_pool(st.pool, parsed.val), LAMBDA added :
                       IF ~added.ok THEN [st EXCEPT !.done = TRUE, !.err = added.err]
                       ELSE [st EXCEPT !.meta_range = Some(added.val.range),
                                       !.pool = added.val.pool,
                                       !.phase = 3,
                                       !.i = st.i + 1 + end[1]])))))

\* parse_body_modifiers: Ok([group, timestamp, meta_range, pool]).
\* phase: 0 = `^`, 1 = `@`, 2 = `{`, 3 = done.  Every iteration that does not
\* return raises the phase, so the loop makes at most four iterations.
parse_body_modifiers(s, meta_pool) ==
  LET Body(st) ==
        IF s[st.i] = "^" THEN ModGroup(s, st)
        ELSE IF s[st.i] = "@" THEN ModTimestamp(s, st)
        ELSE IF s[st.i] = "{" THEN ModMeta(s, st)
        ELSE [st EXCEPT !.done = TRUE, !.err = "InvalidModifier"]
  IN Force(Loop(Body, [i |-> 1, done |-> FALSE, group |-> None, timestamp |-> None,
                       meta_range |-> None, phase |-> 0, pool |-> meta_pool,
                       err |-> "None"], Len(s), 4),
           LAMBDA fin :
             IF fin.err # "None" THEN Err(fin.err)
             ELSE Ok([group |-> fin.group, timestamp |-> fin.timestamp,
                      meta_range |-> fin.meta_range, pool |-> fin.pool]))

\* One non-empty item of parse_variable_list, on the loop state st: parsed is
\* what parse_variable returned for it; its metadata is added to the pool and
\* the variable is pushed.
ListItem(parsed, st) ==
  IF ~parsed.ok THEN [st EXCEPT !.done = TRUE, !.err = parsed.err]
  ELSE Force(IF parsed.val.meta_pairs # None
             THEN add_to_pool(st.pool, parsed.val.meta_pairs[1])
             ELSE Ok([pool |-> st.pool, range |-> None]),
             LAMBDA added :
         IF ~added.ok THEN [st EXCEPT !.done = TRUE, !.err = added.err]
         ELSE IF ~VecPush(st.variables, parsed.val.variable, MAX_VARIABLES).ok
         THEN [st EXCEPT !.done = TRUE, !.err = "TooManyItems"]
         ELSE [st EXCEPT
                 !.variables =
                    VecPush(@, IF parsed.val.meta_pairs # None
                               THEN [parsed.val.variable EXCEPT
                                       !.meta = Some(added.val.range)]
                               ELSE parsed.val.variable,
                            MAX_VARIABLES).vec,
                 !.pool = added.val.pool,
                 !.i = @ + 1])

\* parse_variable_list: Ok([variables, pool]).  The block is cut at the
\* semicolons the walk tests; the loop handles the pieces in order and skips
\* the empty ones.
parse_variable_list(s, meta_pool) ==
  Force(Pieces(s, StopsFrom(s, 1, LAMBDA i : s[i] = ";")), LAMBDA pieces :
    Force(Tup([k \in 1..Len(pieces) |->
                 IF pieces[k].start = pieces[k].end THEN Ok(<< >>)
                 ELSE Force(Slice(s, pieces[k].start, pieces[k].end),
                            LAMBDA var_str : parse_variable(var_str))]),
          LAMBDA parsed :
      LET Body(st) ==
            IF pieces[st.i].start = pieces[st.i].end THEN [st EXCEPT !.i = @ + 1]
            ELSE ListItem(parsed[st.i], st)
      IN Force(Loop(Body, [i |-> 1, done |-> FALSE, variables |-> << >>,
                           pool |-> meta_pool, err |-> "None"],
                    Len(pieces), Len(pieces)),
               LAMBDA fin :
                 IF fin.err # "None" THEN Err(fin.err)
                 ELSE Ok([variables |-> fin.variables, pool |-> fin.pool]))))

parse_hex_passthrough(data) ==
  IF data = << >> THEN Err("InvalidPassthrough")
  ELSE IF Len(data) % 2 # 0 THEN Err("InvalidPassthrough")
  ELSE IF \E k \in 1..Len(data) : data[k] \notin HexDigit
  THEN Err("InvalidPassthrough")
  ELSE Ok([kind |-> "Passthrough", encoding |-> "Hex", data |-> data])

parse_base64_passthrough(data) ==
  IF data = << >> THEN Err("InvalidPassthrough")
  ELSE IF \E k \in 1..Len(data) :
            ~(data[k] \in Alphanumeric \/ data[k] = "+" \/ data[k] = "/"
              \/ data[k] = "=")
       THEN Err("InvalidPassthrough")
  ELSE Ok([kind |-> "Passthrough", encoding |-> "Base64", data |-> data])

\* The structured arm of parse_push_body, from the position of `[` on; the
\* bytes after the matching `]` are not looked at.
StructuredBody(body, bracket_pos) ==
  Force(find_closing_bracket(body, bracket_pos + 1), LAMBDA end_bracket :
    IF end_bracket = None THEN Err("InvalidVariableBlock")
    ELSE IF bracket_pos + 1 = end_bracket[1] THEN Err("InvalidVariableBlock")
    ELSE Force([mod_str |-> Slice(body, 1, bracket_pos),
                var_block |-> Slice(body, bracket_pos + 1, end_bracket[1])],
               LAMBDA part :
      Force(parse_body_modifiers(part.mod_str, << >>), LAMBDA mods :
        IF ~mods.ok THEN Err(mods.err)
        ELSE Force(parse_variable_list(part.var_block, mods.val.pool), LAMBDA list :
          IF ~list.ok THEN Err(list.err)
          ELSE IF list.val.variables = << >> THEN Err("InvalidVariableBlock")
          ELSE Ok([kind |-> "Structured",
                   group |-> mods.val.group,
                   timestamp |-> mods.val.timestamp,
                   body_meta |-> mods.val.meta_range,
                   variables |-> list.val.variables,
                   meta_pool |-> list.val.pool])))))

parse_push_body(body) ==
  IF StartsWith(body, <<">", "x">>)
  THEN Force(Slice(body, 3, Len(body) + 1), LAMBDA rest : parse_hex_passthrough(rest))
  ELSE IF StartsWith(body, <<">", "b">>)
  THEN Force(Slice(body, 3, Len(body) + 1), LAMBDA rest : parse_base64_passthrough(rest))
  ELSE Force(find_unescaped_byte(body, "["), LAMBDA bracket_pos :
         IF bracket_pos = None THEN Err("InvalidVariableBlock")
         ELSE StructuredBody(body, bracket_pos[1]))

\* One non-empty name of parse_pull_body, on the loop state st.
PullItem(name, st) ==
  IF ~validate_varname(name).ok
  THEN [st EXCEPT !.done = TRUE, !.err = validate_varname(name).err]
  ELSE IF ~VecPush(st.variables, name, MAX_VARIABLES).ok
  THEN [st EXCEPT !.done = TRUE, !.err = "TooManyItems"]
  ELSE [st EXCEPT !.variables = VecPush(@, name, MAX_VARIABLES).vec, !.i = @ + 1]

parse_pull_body(body) ==
  IF ~StartsWith(body, <<"[">>) \/ ~EndsWith(body, <<"]">>) THEN Err("MissingBody")
  ELSE Force(Slice(body, 2, Len(body)), LAMBDA inner :
    IF inner = << >> THEN Err("InvalidVariableBlock")
    ELSE
    Force(Pieces(inner, StopsFrom(inner, 1, LAMBDA i : inner[i] = ";")), LAMBDA pieces :
      LET Body(st) ==
            IF pieces[st.i].start = pieces[st.i].end THEN [st EXCEPT !.i = @ + 1]
            ELSE Force(Slice(inner, pieces[st.i].start, pieces[st.i].end),
                       LAMBDA name : PullItem(name, st))
      IN Force(Loop(Body, [i |-> 1, done |-> FALSE, variables |-> << >>,
                           err |-> "None"], Len(pieces), Len(pieces)),
               LAMBDA fin :
                 IF fin.err # "None" THEN Err(fin.err)
                 ELSE IF fin.variables = << >> THEN Err("InvalidVariableBlock")
                 ELSE Ok([variables |-> fin.variables]))))

-----------------------------------------------------------------------------
(* parse/mod.rs *)

strip_newline(in) == IF EndsWith(in, <<LF>>) THEN Slice(in, 1, Len(in)) ELSE in

\* The frame value; push_body and pull_body are Options.
UplinkFrame(method, seq, auth, serial, push_body, pull_body) ==
  [method |-> method, seq |-> seq, auth |-> auth, serial |-> serial,
   push_body |-> push_body, pull_body |-> pull_body]

\* parse_uplink from the field vector on: the optional `!N` (hasSeq tells
\* whether field 2 is one), the auth token, the serial, and the body the
\* method asks for.
UplinkFields(fields, method, hasSeq, auth_idx) ==
  IF hasSeq /\ ~parse_seq(fields[2]).ok THEN Err(parse_seq(fields[2]).err)
  ELSE IF Len(fields) < auth_idx THEN Err("InvalidAuth")
  ELSE IF ~validate_auth(fields[auth_idx]).ok THEN Err(validate_auth(fields[auth_idx]).err)
  ELSE IF Len(fields) < auth_idx + 1 THEN Err("InvalidSerial")
  ELSE IF ~extract_serial(fields[auth_idx + 1]).ok
  THEN Err(extract_serial(fields[auth_idx + 1]).err)
  ELSE IF method = "Ping"
  THEN Ok(UplinkFrame("Ping", IF hasSeq THEN Some(parse_seq(fields[2]).val) ELSE None,
                      fields[auth_idx], fields[auth_idx + 1], None, None))
  ELSE IF Len(fields) < auth_idx + 2 THEN Err("MissingBody")
  ELSE IF method = "Push"
  THEN Force(parse_push_body(fields[auth_idx + 2]), LAMBDA push_body :
         IF ~push_body.ok THEN Err(push_body.err)
         ELSE Ok(UplinkFrame("Push",
                             IF hasSeq THEN Some(parse_seq(fields[2]).val) ELSE None,
                             fields[auth_idx], fields[auth_idx + 1],
                             Some(push_body.val), None)))
  ELSE Force(parse_pull_body(fields[auth_idx + 2]), LAMBDA pull_body :
         IF ~pull_body.ok THEN Err(pull_body.err)
         ELSE Ok(UplinkFrame("Pull",
                             IF hasSeq THEN Some(parse_seq(fields[2]).val) ELSE None,
                             fields[auth_idx], fields[auth_idx + 1],
                             None, Some(pull_body.val))))

parse_uplink(raw) ==
  IF \E k \in 1..Len(raw) : raw[k] = NUL THEN Err("NulByte")
  ELSE IF Len(raw) > MAX_FRAME_SIZE THEN Err("FrameTooLarge")
  ELSE Force(strip_newline(raw), LAMBDA in :
       Force(split_fields(in), LAMBDA fields :
         IF fields = << >> \/ fields[1] = << >> THEN Err("EmptyFrame")
         ELSE IF ~parse_method(fields[1]).ok THEN Err(parse_method(fields[1]).err)
         ELSE IF Len(fields) > 1 /\ StartsWith(fields[2], <<"!">>)
         THEN UplinkFields(fields, parse_method(fields[1]).val, TRUE, 3)
         ELSE UplinkFields(fields, parse_method(fields[1]).val, FALSE, 2)))

\* split_first_pipe: Some(<<head, tail>>) around the first pipe the walk
\* tests, None when it tests none.
split_first_pipe(s) ==
  Force(FirstStop(s, 1, LAMBDA i : s[i] = "|"), LAMBDA i :
    IF i > Len(s) THEN None
    ELSE Some(<<Slice(s, 1, i), Slice(s, i + 1, Len(s) + 1)>>))

HeadlessFrame(serial, push_body, pull_body) ==
  [serial |-> serial, push_body |-> push_body, pull_body |-> pull_body]

parse_headless(method, in) ==
  IF method = "Ping"
  THEN IF ~extract_serial(in).ok THEN Err(extract_serial(in).err)
       ELSE Ok(HeadlessFrame(in, None, None))
  ELSE Force(split_first_pipe(in), LAMBDA split :
    IF split = None THEN Err("MissingBody")
    ELSE IF ~extract_serial(split[1][1]).ok THEN Err(extract_serial(split[1][1]).err)
    ELSE IF method = "Push"
    THEN Force(parse_push_body(split[1][2]), LAMBDA push_body :
           IF ~push_body.ok THEN Err(push_body.err)
           ELSE Ok(HeadlessFrame(split[1][1], Some(push_body.val), None)))
    ELSE Force(parse_pull_body(split[1][2]), LAMBDA pull_body :
           IF ~pull_body.ok THEN Err(pull_body.err)
           ELSE Ok(HeadlessFrame(split[1][1], None, Some(pull_body.val)))))

-----------------------------------------------------------------------------
(* parse/ack.rs *)

parse_ack_status(s) ==
  IF s = <<"O", "K">> THEN Ok("Ok")
  ELSE IF s = <<"P", "O", "N", "G">> THEN Ok("Pong")
  ELSE IF s = <<"C", "M", "D">> THEN Ok("Cmd")
  ELSE IF s = <<"E", "R", "R">> THEN Ok("Err")
  ELSE Err("InvalidAck")

parse_u32_str(s) == parse_u32(s)

\* The ERR code table; the texts are kept by their model spelling.
ErrorCodeOf(s) ==
  IF s = <<"r", "a", "t", "e", "_", "l", "i", "m", "i", "t", "e", "d">> THEN "RateLimited"
  ELSE IF s = <<"a", "u", "t", "h", "_", "f", "a", "i", "l", "e", "d">> THEN "AuthFailed"
  ELSE IF s = <<"i", "n", "v", "a", "l", "i", "d", "_", "s", "e", "q">> THEN "InvalidSeq"
  ELSE IF s = <<"s", "e", "r", "v", "e", "r", "_", "e", "r", "r", "o", "r">> THEN "ServerError"
  ELSE IF s = <<"i", "n", "v", "a", "l", "i", "d", "_", "t", "o", "k", "e", "n">>
  THEN "InvalidToken"
  ELSE IF s = <<"i", "n", "v", "a", "l", "i", "d", "_", "m", "e", "t", "h", "o", "d">>
  THEN "InvalidMethod"
  ELSE IF s = <<"i", "n", "v", "a", "l", "i", "d", "_", "p", "a", "y", "l", "o", "a", "d">>
  THEN "InvalidPayload"
  ELSE IF s = <<"d", "e", "v", "i", "c", "e", "_", "n", "o", "t", "_", "f", "o", "u", "n", "d">>
  THEN "DeviceNotFound"
  ELSE IF s = <<"v", "a", "r", "i", "a", "b", "l", "e", "_", "n", "o", "t", "_", "f", "o",
               "u", "n", "d">>
  THEN "VariableNotFound"
  ELSE IF s = <<"u", "n", "s", "u", "p", "p", "o", "r", "t", "e", "d", "_", "v", "e", "r",
               "s", "i", "o", "n">>
  THEN "UnsupportedVersion"
  ELSE IF s = <<"p", "a", "y", "l", "o", "a", "d", "_", "t", "o", "o", "_", "l", "a", "r",
               "g", "e">>
  THEN "PayloadTooLarge"
  ELSE "Unknown"

\* AckDetail: one record shape for the five variants; tag names the variant,
\* count is the payload of Count, text the payload of the others.
AckDetail(tag, count, text, code) ==
  [tag |-> tag, count |-> count, text |-> text, code |-> code]

parse_ack_detail(s, status) ==
  IF status = "Ok"
  THEN IF StartsWith(s, <<"[">>) THEN AckDetail("Variables", U32Zero, s, "None")
       ELSE Force(parse_u32_str(s), LAMBDA count :
              IF count # None THEN AckDetail("Count", count[1], << >>, "None")
              ELSE AckDetail("Raw", U32Zero, s, "None"))
  ELSE IF status = "Pong" THEN AckDetail("Raw", U32Zero, s, "None")
  ELSE IF status = "Cmd" THEN AckDetail("Command", U32Zero, s, "None")
  ELSE AckDetail("Error", U32Zero, s, ErrorCodeOf(s))

\* ack::parse_ack, on the input without its trailing newline.
ack_parse_ack(in) ==
  Force(split_fields(in), LAMBDA fields :
    IF fields = << >> \/ fields[1] # <<"A", "C", "K">> THEN Err("InvalidAck")
    ELSE IF Len(fields) < 2 THEN Err("InvalidAck")
    ELSE Force(StartsWith(fields[2], <<"!">>), LAMBDA hasSeq :
      Force(IF hasSeq THEN parse_seq(fields[2]) ELSE Ok(U32Zero), LAMBDA seq :
        IF ~seq.ok THEN Err(seq.err)
        ELSE Force(IF hasSeq THEN 3 ELSE 2, LAMBDA status_idx :
          IF Len(fields) < status_idx THEN Err("InvalidAck")
          ELSE Force(parse_ack_status(fields[status_idx]), LAMBDA status :
            IF ~status.ok THEN Err(status.err)
            ELSE Ok([seq |-> IF hasSeq THEN Some(seq.val) ELSE None,
                     status |-> status.val,
                     detail |-> IF Len(fields) > status_idx
                                THEN Some(parse_ack_detail(fields[status_idx + 1],
                                                           status.val))
                                ELSE None]))))))

\* parse::parse_ack (parse/mod.rs): strips one trailing newline, nothing else.
parse_ack(raw) == Force(strip_newline(raw), LAMBDA in : ack_parse_ack(in))

-----------------------------------------------------------------------------
(* fmt.rs *)

\* The decimal digits of value, most significant first (the `while v > 0`
\* loop that fills the 10-byte scratch buffer from its end).
RECURSIVE Digits(_)
Digits(v0) ==
  Force(v0, LAMBDA v :
    IF v = U32Zero THEN << >>
    ELSE Append(Digits(U32Div10(v)), DigitSeq[U32Mod10(v) + 1]))

\* format_u32(value, out): None when out is too short, else Some of the bytes
\* written at the start of out.
format_u32(value, outlen) ==
  IF value = U32Zero THEN (IF outlen = 0 THEN None ELSE Some(<<"0">>))
  ELSE Force(Digits(value), LAMBDA ds : IF outlen < Len(ds) THEN None ELSE Some(ds))

-----------------------------------------------------------------------------
(* build/frame.rs *)

\* The byte a caller's buffer holds before the builder writes to it.
FILL == "."

\* FrameWriter { buf, pos }, with the Result of the calls made so far: once a
\* write has returned Err, `?` returns from the builder and no later write
\* happens.
FrameWriter_new(cap) == [buf |-> Rep(FILL, cap), pos |-> 0, ok |-> TRUE]

written(w) == w.pos

\* Replace buf[pos .. pos + len(data)] by data.
Overwrite(buf, pos, data) ==
  SubSeq(buf, 1, pos) \o data \o SubSeq(buf, pos + Len(data) + 1, Len(buf))

\* A write that moves the cursor also when it fails.
WriteBytesMovesOnFailure(w0, data0) ==
  Force(<<w0, data0>>, LAMBDA a :
    IF ~a[1].ok THEN a[1]
    ELSE IF a[1].pos + Len(a[2]) > Len(a[1].buf)
    THEN [a[1] EXCEPT !.ok = FALSE, !.pos = @ + Len(a[2])]
    ELSE [a[1] EXCEPT !.buf = Overwrite(a[1].buf, a[1].pos, a[2]),
                      !.pos = @ + Len(a[2])])

write_bytes(w0, data0) ==
  Force(<<w0, data0>>, LAMBDA a :
    IF ~a[1].ok THEN a[1]
    ELSE IF a[1].pos + Len(a[2]) > Len(a[1].buf) THEN [a[1] EXCEPT !.ok = FALSE]
    ELSE [a[1] EXCEPT !.buf = Overwrite(a[1].buf, a[1].pos, a[2]),
                      !.pos = @ + Len(a[2])])

write_byte(w0, b) ==
  Force(w0, LAMBDA w :
    IF ~w.ok THEN w
    ELSE IF w.pos >= Len(w.buf) THEN [w EXCEPT !.ok = FALSE]
    ELSE [w EXCEPT !.buf = Overwrite(w.buf, w.pos, <<b>>), !.pos = @ + 1])

write_str(w, s) == write_bytes(w, s)

write_pipe(w) == write_byte(w, "|")

write_u32(w0, value) ==
  Force(w0, LAMBDA w :
    Force(format_u32(value, Len(w.buf) - w.pos), LAMBDA n :
      IF ~w.ok THEN w
      ELSE IF n = None THEN [w EXCEPT !.ok = FALSE]
      ELSE [w EXCEPT !.buf = Overwrite(w.buf, w.pos, n[1]), !.pos = @ + Len(n[1])]))

write_value(w, op, value) ==
  IF op = "Number"
  THEN IF value.tag = "Number" THEN write_str(write_str(w, <<":", "=">>), value.s)
       ELSE write_str(w, <<":", "=">>)
  ELSE IF op = "String"
  THEN IF value.tag = "String" THEN write_str(write_byte(w, "="), value.s)
       ELSE write_byte(w, "=")
  ELSE IF op = "Boolean"
  THEN IF value.tag = "Boolean"
       THEN write_str(write_str(w, <<"?", "=">>),
                      IF value.b THEN <<"t", "r", "u", "e">>
                      ELSE <<"f", "a", "l", "s", "e">>)
       ELSE write_str(w, <<"?", "=">>)
  ELSE IF value.tag # "Location" THEN write_str(w, <<"@", "=">>)
  ELSE IF value.alt # None
  THEN write_str(write_byte(write_str(write_byte(write_str(write_str(w, <<"@", "=">>),
                                                           value.lat), ","),
                                      value.lng), ","),
                 value.alt[1])
  ELSE write_str(write_byte(write_str(write_str(w, <<"@", "=">>), value.lat), ","),
                 value.lng)

write_metadata_pairs(w, pairs0) ==
  Force(pairs0, LAMBDA pairs :
    LET Body(st) ==
          [st EXCEPT
             !.w = write_str(write_byte(write_str(IF st.i > 1 THEN write_byte(st.w, ",")
                                                  ELSE st.w,
                                                  pairs[st.i].key), "="),
                             pairs[st.i].value),
             !.i = @ + 1]
    IN Force(write_byte(w, "{"), LAMBDA w1 :
         write_byte(Loop(Body, [i |-> 1, done |-> FALSE, w |-> w1],
                         Len(pairs), Len(pairs)).w, "}")))

PoolSlice(meta_pool, range) ==
  Slice(meta_pool, range.start + 1, range.start + range.len + 1)

\* `if let Some(x) = opt { write_byte(marker); write_str(x) }`
WriteOpt(w, marker, opt) ==
  IF opt # None THEN write_str(write_byte(w, marker), opt[1]) ELSE w

\* `if let Some(range) = meta { write_metadata_pairs(&meta_pool[start..end]) }`
WriteMeta(w, meta, meta_pool) ==
  IF meta # None THEN write_metadata_pairs(w, PoolSlice(meta_pool, meta[1])) ELSE w

write_variable(w, var0, meta_pool) ==
  Force(var0, LAMBDA var :
    WriteMeta(
      WriteOpt(
        WriteOpt(
          WriteOpt(write_value(write_str(w, var.name), var.operator, var.value),
                   "#", var.unit),
          "@", var.timestamp),
        "^", var.group),
      var.meta, meta_pool))

write_body_modifiers(w, group, timestamp, body_meta, meta_pool) ==
  WriteMeta(WriteOpt(WriteOpt(w, "@", timestamp), "^", group), body_meta, meta_pool)

write_push_body(w, body0) ==
  Force(body0, LAMBDA body :
    IF body.kind = "Passthrough"
    THEN write_str(write_str(w, IF body.encoding = "Hex" THEN <<">", "x">>
                                ELSE <<">", "b">>),
                   body.data)
    ELSE LET Body(st) ==
               [st EXCEPT
                  !.w = write_variable(IF st.i > 1 THEN write_byte(st.w, ";") ELSE st.w,
                                       body.variables[st.i], body.meta_pool),
                  !.i = @ + 1]
         IN Force(write_byte(write_body_modifiers(w, body.group, body.timestamp,
                                                  body.body_meta, body.meta_pool), "["),
                  LAMBDA w1 :
              write_byte(Loop(Body, [i |-> 1, done |-> FALSE, w |-> w1],
                              Len(body.variables), Len(body.variables)).w, "]")))

write_pull_body(w, body0) ==
  Force(body0, LAMBDA body :
    LET Body(st) ==
          [st EXCEPT
             !.w = write_str(IF st.i > 1 THEN write_byte(st.w, ";") ELSE st.w,
                             body.variables[st.i]),
             !.i = @ + 1]
    IN Force(write_byte(w, "["), LAMBDA w1 :
         write_byte(Loop(Body, [i |-> 1, done |-> FALSE, w |-> w1],
                         Len(body.variables), Len(body.variables)).w, "]")))

\* The value a builder returns, with the buffer it leaves behind:
\* Ok(w.written()) or Err(BufferTooSmall).
Built(w0) ==
  Force(w0, LAMBDA w :
    [ok |-> w.ok, err |-> IF w.ok THEN "None" ELSE "BufferTooSmall",
     n |-> IF w.ok THEN written(w) ELSE 0, buf |-> w.buf])

MethodStr(method) ==
  IF method = "Push" THEN <<"P", "U", "S", "H">>
  ELSE IF method = "Pull" THEN <<"P", "U", "L", "L">>
  ELSE <<"P", "I", "N", "G">>

StatusStr(status) ==
  IF status = "Ok" THEN <<"O", "K">>
  ELSE IF status = "Pong" THEN <<"P", "O", "N", "G">>
  ELSE IF status = "Cmd" THEN <<"C", "M", "D">>
  ELSE <<"E", "R", "R">>

\* `if let Some(seq) = frame.seq { write_pipe(); write_byte(b'!'); write_u32(seq) }`
WriteSeq(w, seq) ==
  IF seq # None THEN write_u32(write_byte(write_pipe(w), "!"), seq[1]) ELSE w

\* The `match frame.method` of build_uplink and build_headless.
WriteBody(w, method, push_body, pull_body) ==
  IF method = "Push" /\ push_body # None THEN write_push_body(write_pipe(w), push_body[1])
  ELSE IF method = "Pull" /\ pull_body # None
  THEN write_pull_body(write_pipe(w), pull_body[1])
  ELSE w

build_uplink(f0, cap) ==
  Force(f0, LAMBDA f :
    Built(WriteBody(
            write_str(write_pipe(
              write_str(write_pipe(
                WriteSeq(write_str(FrameWriter_new(cap), MethodStr(f.method)), f.seq)),
                f.auth)),
              f.serial),
            f.method, f.push_body, f.pull_body)))

\* The `match detail` of build_ack and build_ack_inner.
WriteDetail(w, detail) ==
  IF detail = None THEN w
  ELSE IF detail[1].tag = "Count" THEN write_u32(write_pipe(w), detail[1].count)
  ELSE write_str(write_pipe(w), detail[1].text)

build_ack(f0, cap) ==
  Force(f0, LAMBDA f :
    Built(WriteDetail(
            write_str(write_pipe(WriteSeq(write_str(FrameWriter_new(cap),
                                                    <<"A", "C", "K">>), f.seq)),
                      StatusStr(f.status)),
            f.detail)))

build_ack_inner(f0, cap) ==
  Force(f0, LAMBDA f :
    Built(WriteDetail(write_str(FrameWriter_new(cap), StatusStr(f.status)), f.detail)))

build_headless(method, f0, cap) ==
  Force(f0, LAMBDA f :
    Built(WriteBody(write_str(FrameWriter_new(cap), f.serial),
                    method, f.push_body, f.pull_body)))

-----------------------------------------------------------------------------
(* The callers: what is handed to the parsers and builders *)

\* The texts of ss one after the other, with sep between them.
JoinWith(ss0, sep) ==
  Force(ss0, LAMBDA ss :
    LET RECURSIVE Join(_, _)
        Join(lo, hi) ==
          IF lo > hi THEN << >>
          ELSE IF lo = hi THEN ss[lo]
          ELSE Join(lo, (lo + hi) \div 2) \o sep \o Join((lo + hi) \div 2 + 1, hi)
    IN Join(1, Len(ss)))

Flatten(ss) == JoinWith(ss, << >>)

SeqsUpTo(S, n) == UNION {[1..k -> S] : k \in 0..n}

\* Bounds of the inputs.
MaxMods == 3      \* body-level modifier tokens before `[`
MaxItems == 2     \* items between `[` and `]`
MaxSuffix == 3    \* suffix tokens after a variable's value
BufSmall == 40    \* a caller's buffer shorter than every frame
BufLarge == 160   \* a caller's buffer longer than every frame
AckBufSmall == 5  \* a caller's buffer shorter than every ACK frame

AUTH == <<"a", "t">> \o Rep("0", 30) \o <<"9", "f">>
SERIAL == <<"s", "1">>

TsTok == <<"@", "1">>
GroupTok == <<"^", "g">>
MetaTok == <<"{", "k", "=", "v", "}">>
ModToks == {TsTok, GroupTok, MetaTok}

ItemTexts ==
  { <<"x", ":", "=", "1">>,
    <<"y", "=", "h", "i", "#", "u", "@", "2", "^", "g", "{", "a", "=", "b", "}">>,
    <<"p", "@", "=", "1", ",", "-", "2", ".", "5">>,
    << >> }
PullNames == {<<"a">>, <<"b", "2">>, << >>}

\* The text of an uplink frame put together from its parts.
UplinkText(sh) ==
  LET head == MethodStr(sh.method)
              \o (IF sh.seq # None THEN <<"|", "!">> \o sh.seq[1] ELSE << >>)
              \o <<"|">> \o AUTH \o <<"|">> \o SERIAL
      body == IF sh.method = "Ping" THEN << >>
              ELSE <<"|">> \o Flatten(sh.mods) \o <<"[">> \o JoinWith(sh.items, <<";">>)
                   \o <<"]">>
      trail == IF sh.trail = "tail" THEN <<"z">>
               ELSE IF sh.trail = "field" THEN <<"|", "e">>
               ELSE << >>
  IN head \o body \o trail \o (IF sh.nl THEN <<LF>> ELSE << >>)

UplinkShape(method, seq, mods, items, trail, nl) ==
  [method |-> method, seq |-> seq, mods |-> mods, items |-> items, trail |-> trail,
   nl |-> nl]

\* Three families: body modifiers, variable lists, framing.
UplinkShapes ==
  {UplinkShape("Push", seq, mods, <<<<"x", ":", "=", "1">>>>, "none", nl) :
     seq \in {None, Some(<<"7">>)}, mods \in SeqsUpTo(ModToks, MaxMods), nl \in BOOLEAN}
  \cup
  {UplinkShape("Push", None, mods, items, "none", nl) :
     mods \in {<< >>, <<MetaTok>>}, items \in SeqsUpTo(ItemTexts, MaxItems),
     nl \in BOOLEAN}
  \cup
  {UplinkShape("Pull", seq, << >>, items, trail, FALSE) :
     seq \in {None, Some(<<"7">>)}, items \in SeqsUpTo(PullNames, MaxItems),
     trail \in {"none", "field"}}
  \cup
  {UplinkShape(method, seq, << >>, <<<<"x", ":", "=", "1">>>>, trail, nl) :
     method \in {"Push", "Ping"}, seq \in {None, Some(<<"7">>), Some(<<"0", "7">>)},
     trail \in {"none", "tail", "field"}, nl \in BOOLEAN}

NoShape == [method |-> "None"]
NoResult == [ok |-> FALSE, err |-> "None", val |-> << >>]
NoBuilt == [ok |-> FALSE, err |-> "None", n |-> 0, buf |-> << >>]

AllSuites == {"Aes128Ccm", "Aes128Gcm", "Aes256Ccm", "Aes256Gcm", "ChaCha20Poly1305"}

Init ==
  /\ pc = "idle"
  /\ shape = NoShape
  /\ input = << >>
  /\ frame = NoResult
  /\ bufcap = 0
  /\ output = NoBuilt
  /\ features = AllSuites
  /\ sealargs = << >>
  /\ oracle = {}
  /\ wire = NoResult
  /\ opened = NoResult

\* A frame arrives from the transport.
ReceiveUplink ==
  /\ pc = "idle"
  /\ \E sh \in UplinkShapes :
       /\ shape' = sh
       /\ input' = UplinkText(sh)
  /\ pc' = "uplink_received"
  /\ UNCHANGED <<frame, bufcap, output>>
  /\ UNCHANGED secureVars

ParseUplink ==
  /\ pc = "uplink_received"
  /\ frame' = parse_uplink(input)
  /\ pc' = "uplink_parsed"
  /\ UNCHANGED <<shape, input, bufcap, output>>
  /\ UNCHANGED secureVars

BuildUplink ==
  /\ pc = "uplink_parsed"
  /\ frame.ok
  /\ \E cap \in {BufSmall, BufLarge} :
       /\ bufcap' = cap
       /\ output' = build_uplink(frame.val, cap)
  /\ pc' = "uplink_built"
  /\ UNCHANGED <<shape, input, frame>>
  /\ UNCHANGED secureVars

NextUplink == ReceiveUplink \/ ParseUplink \/ BuildUplink

SpecUplink == Init /\ [][NextUplink]_vars

\* The bytes a builder wrote: buf[..n].
Written(out) == SubSeq(out.buf, 1, out.n)

-----------------------------------------------------------------------------
(* Properties of the uplink parser and builder *)

X1 == <<"x", ":", "=", "1">>

\* The body-modifier sequences in the order @timestamp, ^group, {meta}, each
\* token at most once.
OrderedMods ==
  { << >>, <<TsTok>>, <<GroupTok>>, <<MetaTok>>, <<TsTok, GroupTok>>,
    <<TsTok, MetaTok>>, <<GroupTok, MetaTok>>, <<TsTok, GroupTok, MetaTok>> }

\* The parsed frame's structured PUSH body.
ParsedBody == frame.val.push_body[1]

\* C1: whenever parse_uplink accepts the input and build_uplink of the parsed
\* frame succeeds, the bytes written are the input without its one trailing
\* newline.
C1_UplinkRoundTrip ==
  (pc = "uplink_built" /\ output.ok) => Written(output) = strip_newline(input)

\* C6: a structured PUSH body whose body-level modifiers are written in the
\* order @timestamp, ^group, {meta}, each at most once, is accepted, and the
\* parsed body carries exactly the timestamp, group and metadata pair written.
C6_OrderedModifiersAccepted ==
  (/\ pc = "uplink_parsed"
   /\ shape.method = "Push"
   /\ shape.seq \in {None, Some(<<"7">>)}
   /\ shape.mods \in OrderedMods
   /\ shape.items = <<X1>>
   /\ shape.trail = "none")
  => /\ frame.ok
     /\ ParsedBody.kind = "Structured"
     /\ ParsedBody.timestamp
          = (IF \E i \in DOMAIN shape.mods : shape.mods[i] = TsTok
             THEN Some(<<"1">>) ELSE None)
     /\ ParsedBody.group
          = (IF \E i \in DOMAIN shape.mods : shape.mods[i] = GroupTok
             THEN Some(<<"g">>) ELSE None)
     /\ IF \E i \in DOMAIN shape.mods : shape.mods[i] = MetaTok
        THEN /\ ParsedBody.body_meta # None
             /\ PoolSlice(ParsedBody.meta_pool, ParsedBody.body_meta[1])
                  = <<[key |-> <<"k">>, value |-> <<"v">>]>>
        ELSE ParsedBody.body_meta = None

\* C7: a PUSH body in which a lower-order body-level marker follows a
\* higher-order one, or in which a marker occurs twice, is rejected.
C7_DisorderedModifiersRejected ==
  (/\ pc = "uplink_parsed"
   /\ shape.method = "Push"
   /\ shape.mods \notin OrderedMods)
  => ~frame.ok

-----------------------------------------------------------------------------
(* ACK frames handed to parse_ack and build_ack *)

AckDetails ==
  { << >>, <<"7">>, <<"0", "0", "7">>, <<"[", "a", ";", "b", "]">>, <<"x">>,
    <<"a", "|", "b">>, <<"r", "a", "t", "e", "_", "l", "i", "m", "i", "t", "e", "d">>,
    <<"z", "z">> }

AckShape(seq, status, detail, nl) ==
  [method |-> "Ack", seq |-> seq, status |-> status, detail |-> detail, nl |-> nl]

AckShapes ==
  {AckShape(seq, status, detail, nl) :
     seq \in {None, Some(<<"7">>)}, status \in {"Ok", "Pong", "Cmd", "Err"},
     detail \in {None} \cup {Some(d) : d \in AckDetails}, nl \in BOOLEAN}

\* The text of an ACK frame put together from its parts.
AckText(sh) ==
  <<"A", "C", "K">>
  \o (IF sh.seq # None THEN <<"|", "!">> \o sh.seq[1] ELSE << >>)
  \o <<"|">> \o StatusStr(sh.status)
  \o (IF sh.detail # None THEN <<"|">> \o sh.detail[1] ELSE << >>)
  \o (IF sh.nl THEN <<LF>> ELSE << >>)

ReceiveAck ==
  /\ pc = "idle"
  /\ \E sh \in AckShapes :
       /\ shape' = sh
       /\ input' = AckText(sh)
  /\ pc' = "ack_received"
  /\ UNCHANGED <<frame, bufcap, output>>
  /\ UNCHANGED secureVars

ParseAck ==
  /\ pc = "ack_received"
  /\ frame' = parse_ack(input)
  /\ pc' = "ack_parsed"
  /\ UNCHANGED <<shape, input, bufcap, output>>
  /\ UNCHANGED secureVars

BuildAck ==
  /\ pc = "ack_parsed"
  /\ frame.ok
  /\ \E cap \in {AckBufSmall, BufLarge} :
       /\ bufcap' = cap
       /\ output' = build_ack(frame.val, cap)
  /\ pc' = "ack_built"
  /\ UNCHANGED <<shape, input, frame>>
  /\ UNCHANGED secureVars

NextAck == ReceiveAck \/ ParseAck \/ BuildAck

SpecAck == Init /\ [][NextAck]_vars

\* C2: whenever parse_ack accepts the input and build_ack of the parsed frame
\* succeeds, the bytes written are the input without its one trailing newline,
\* for every status, with or without !SEQ, and for every detail text.
C2_AckRoundTrip ==
  (pc = "ack_built" /\ output.ok) => Written(output) = strip_newline(input)

-----------------------------------------------------------------------------
(* Variable texts handed to parse_variable *)

UnitTok == <<"#", "u">>
SuffixToks == {UnitTok, TsTok, GroupTok, MetaTok}

\* The place of a suffix in the order #unit, @timestamp, ^group, {meta}.
SuffixRank(tok) ==
  IF tok = UnitTok THEN 1 ELSE IF tok = TsTok THEN 2 ELSE IF tok = GroupTok THEN 3 ELSE 4

VariableBases == {<<"a", ":", "=", "1">>, <<"s", "=", "h", "i">>}

VariableShape(base, suffix) == [method |-> "Variable", base |-> base, suffix |-> suffix]

VariableShapes ==
  {VariableShape(base, suffix) :
     base \in VariableBases, suffix \in SeqsUpTo(SuffixToks, MaxSuffix)}

ReceiveVariable ==
  /\ pc = "idle"
  /\ \E sh \in VariableShapes :
       /\ shape' = sh
       /\ input' = sh.base \o Flatten(sh.suffix)
  /\ pc' = "variable_received"
  /\ UNCHANGED <<frame, bufcap, output>>
  /\ UNCHANGED secureVars

ParseVariable ==
  /\ pc = "variable_received"
  /\ frame' = parse_variable(input)
  /\ pc' = "variable_parsed"
  /\ UNCHANGED <<shape, input, bufcap, output>>
  /\ UNCHANGED secureVars

NextVariable == ReceiveVariable \/ ParseVariable

SpecVariable == Init /\ [][NextVariable]_vars

\* A suffix marker occurs after a suffix of the same or a higher order.
Disordered(suffix) ==
  \E i, j \in DOMAIN suffix : i < j /\ SuffixRank(suffix[j]) <= SuffixRank(suffix[i])

\* C8: a variable in which a suffix marker occurs after a suffix of the same
\* or a higher order in #unit, @timestamp, ^group, {meta}, including any marker
\* after the closing brace of the metadata block, is rejected with
\* InvalidVariable.
C8_DisorderedSuffixRejected ==
  (pc = "variable_parsed" /\ Disordered(shape.suffix))
  => (~frame.ok /\ frame.err = "InvalidVariable")

-----------------------------------------------------------------------------
(* Frames at the count caps *)

CapSlack == 2     \* how far below and above a cap the counts go

Near(cap) == (cap - CapSlack)..(cap + CapSlack)

PairText == <<"k", "=", "v">>
PlainVar == <<"a", "=", "1">>

\* `{k=v,k=v,...}` with n pairs.
MetaBlockText(n) == <<"{">> \o JoinWith([i \in 1..n |-> PairText], <<",">>) \o <<"}">>

\* A PUSH or PULL frame with nvars variables, of which the first `blocks` carry a
\* full metadata block each and the next one carries `last` pairs (none when
\* last = 0), after a body-level metadata block of `bodymeta` pairs (none when 0).
CapsShape(method, nvars, blocks, last, bodymeta) ==
  [method |-> method, nvars |-> nvars, blocks |-> blocks, last |-> last,
   bodymeta |-> bodymeta]

CapsItem(sh, i) ==
  IF sh.method = "Pull" THEN <<"a">>
  ELSE IF i <= sh.blocks THEN PlainVar \o MetaBlockText(MAX_META_PAIRS)
  ELSE IF i = sh.blocks + 1 /\ sh.last > 0 THEN PlainVar \o MetaBlockText(sh.last)
  ELSE PlainVar

CapsText(sh) ==
  MethodStr(sh.method) \o <<"|">> \o AUTH \o <<"|">> \o SERIAL \o <<"|">>
  \o (IF sh.bodymeta > 0 THEN MetaBlockText(sh.bodymeta) ELSE << >>)
  \o <<"[">> \o JoinWith([i \in 1..sh.nvars |-> CapsItem(sh, i)], <<";">>) \o <<"]">>

\* Full blocks that bring the pool next to its cap.
PoolBlocks == MAX_TOTAL_META \div MAX_META_PAIRS

CapsShapes ==
  {CapsShape(method, nvars, 0, 0, 0) :
     method \in {"Push", "Pull"}, nvars \in (1..CapSlack) \cup Near(MAX_VARIABLES)}
  \cup
  {CapsShape("Push", nvars, 0, last, bodymeta) :
     nvars \in 1..CapSlack, last \in {0} \cup Near(MAX_META_PAIRS),
     bodymeta \in {0} \cup Near(MAX_META_PAIRS)}
  \cup
  {CapsShape("Push", blocks + 1, blocks, last, bodymeta) :
     blocks \in {PoolBlocks - 1, PoolBlocks},
     last \in {0} \cup ((MAX_META_PAIRS - CapSlack)..MAX_META_PAIRS),
     bodymeta \in 0..CapSlack}

ReceiveCaps ==
  /\ pc = "idle"
  /\ \E sh \in CapsShapes :
       /\ shape' = sh
       /\ input' = CapsText(sh)
  /\ pc' = "caps_received"
  /\ UNCHANGED <<frame, bufcap, output>>
  /\ UNCHANGED secureVars

ParseCaps ==
  /\ pc = "caps_received"
  /\ frame' = parse_uplink(input)
  /\ pc' = "caps_parsed"
  /\ UNCHANGED <<shape, input, bufcap, output>>
  /\ UNCHANGED secureVars

NextCaps == ReceiveCaps \/ ParseCaps

SpecCaps == Init /\ [][NextCaps]_vars

\* The pairs the frame of a shape carries in all its metadata blocks, and the
\* pairs of its largest block.
CapsTotal(sh) == sh.blocks * MAX_META_PAIRS + sh.last + sh.bodymeta
CapsLargest(sh) ==
  IF sh.blocks > 0 THEN MAX_META_PAIRS
  ELSE IF sh.last > sh.bodymeta THEN sh.last ELSE sh.bodymeta

\* The variables and the pool of the frame that was accepted.
CapsVariables ==
  IF shape.method = "Pull" THEN frame.val.pull_body[1].variables
  ELSE frame.val.push_body[1].variables
CapsPool == IF shape.method = "Pull" THEN << >> ELSE frame.val.push_body[1].meta_pool

\* C9: a frame with up to 100 variables, up to 32 pairs in each metadata block
\* and up to 512 pairs in all its metadata blocks together is accepted, with
\* every variable and every pair in the result; a frame with a 101st variable,
\* a 33rd pair in a block or a 513th pair in the pool is rejected with
\* TooManyItems.
C9_CountCaps ==
  pc = "caps_parsed" =>
    IF shape.nvars <= 100 /\ CapsLargest(shape) <= 32 /\ CapsTotal(shape) <= 512
    THEN /\ frame.ok
         /\ Len(CapsVariables) = shape.nvars
         /\ Len(CapsPool) = CapsTotal(shape)
    ELSE ~frame.ok /\ frame.err = "TooManyItems"

\* A frame whose sixteen blocks of 32 pairs fill the pool to 512 was accepted.
C9_Witness ==
  /\ pc = "caps_parsed"
  /\ shape.method = "Push"
  /\ CapsLargest(shape) = 32
  /\ CapsTotal(shape) = 512
  /\ frame.ok
  /\ Len(frame.val.push_body[1].meta_pool) = 512

\* Frames one over each cap were rejected, frames at the caps accepted.
C9_WitnessVariables ==
  pc = "caps_parsed" /\ shape.nvars = 100 /\ frame.ok /\ Len(CapsVariables) = 100
C9_WitnessOverVariables ==
  pc = "caps_parsed" /\ shape.nvars = 101 /\ frame.err = "TooManyItems"
C9_WitnessOverPairs ==
  pc = "caps_parsed" /\ shape.nvars <= 100 /\ CapsLargest(shape) = 33
  /\ frame.err = "TooManyItems"
C9_WitnessOverPool ==
  pc = "caps_parsed" /\ shape.nvars <= 100 /\ CapsLargest(shape) = 32
  /\ CapsTotal(shape) = 513 /\ frame.err = "TooManyItems"

-----------------------------------------------------------------------------
(* Frames at the length caps *)

LimitSlack == 2   \* how far below and above a cap the lengths go

LimitFields ==
  {"name", "pullname", "group", "bodygroup", "serial", "key", "bodykey", "unit"}

LimitCap(field) ==
  IF field \in {"name", "pullname"} THEN MAX_VARNAME_LEN
  ELSE IF field \in {"group", "bodygroup"} THEN MAX_GROUP_LEN
  ELSE IF field = "serial" THEN MAX_SERIAL_LEN
  ELSE IF field \in {"key", "bodykey"} THEN MAX_META_KEY_LEN
  ELSE MAX_UNIT_LEN

\* A frame in which one field is len bytes of fill and every other field is
\* short.
LimitsShape(field, len, fill) == [field |-> field, len |-> len, fill |-> fill]

LimitsShapes ==
  {LimitsShape(field, LimitCap(field) + d, fill) :
     field \in LimitFields, d \in (0 - LimitSlack)..LimitSlack, fill \in {"a", "7", "_"}}

LimitsText(sh) ==
  LET long == Rep(sh.fill, sh.len)
      F(field, short) == IF sh.field = field THEN long ELSE short
  IN IF sh.field = "pullname"
     THEN <<"P", "U", "L", "L", "|">> \o AUTH \o <<"|">> \o SERIAL \o <<"|", "[">> \o long
          \o <<"]">>
     ELSE <<"P", "U", "S", "H", "|">> \o AUTH \o <<"|">> \o F("serial", SERIAL) \o <<"|">>
          \o (IF sh.field = "bodygroup" THEN <<"^">> \o long ELSE << >>)
          \o (IF sh.field = "bodykey" THEN <<"{">> \o long \o <<"=", "v", "}">> ELSE << >>)
          \o <<"[">> \o F("name", <<"x">>) \o <<":", "=", "1">>
          \o (IF sh.field = "unit" THEN <<"#">> \o long ELSE << >>)
          \o (IF sh.field = "group" THEN <<"^">> \o long ELSE << >>)
          \o (IF sh.field = "key" THEN <<"{">> \o long \o <<"=", "v", "}">> ELSE << >>)
          \o <<"]">>

ReceiveLimits ==
  /\ pc = "idle"
  /\ \E sh \in LimitsShapes :
       /\ shape' = sh
       /\ input' = LimitsText(sh)
  /\ pc' = "limits_received"
  /\ UNCHANGED <<frame, bufcap, output>>
  /\ UNCHANGED secureVars

ParseLimits ==
  /\ pc = "limits_received"
  /\ frame' = parse_uplink(input)
  /\ pc' = "limits_parsed"
  /\ UNCHANGED <<shape, input, bufcap, output>>
  /\ UNCHANGED secureVars

NextLimits == ReceiveLimits \/ ParseLimits

SpecLimits == Init /\ [][NextLimits]_vars

\* The field of the accepted frame that the shape made long.
LimitsParsed ==
  IF shape.field = "pullname" THEN frame.val.pull_body[1].variables[1]
  ELSE IF shape.field = "serial" THEN frame.val.serial
  ELSE IF shape.field = "name" THEN frame.val.push_body[1].variables[1].name
  ELSE IF shape.field = "unit" THEN frame.val.push_body[1].variables[1].unit[1]
  ELSE IF shape.field = "group" THEN frame.val.push_body[1].variables[1].group[1]
  ELSE IF shape.field = "bodygroup" THEN frame.val.push_body[1].group[1]
  ELSE frame.val.push_body[1].meta_pool[1].key

\* The caps the specification states: 25 bytes for a unit, 100 for the others.
LimitsOver == shape.len > (IF shape.field = "unit" THEN 25 ELSE 100)

\* C10 as stated: a variable name, group, serial or metadata key of more than
\* 100 bytes, or a unit of more than 25 bytes, makes parse_uplink fail with
\* InvalidField.
C10_OverLengthInvalidField ==
  (pc = "limits_parsed" /\ LimitsOver) => (~frame.ok /\ frame.err = "InvalidField")

\* C10, amended: a field at or below its cap (100 bytes, 25 for a unit) is
\* accepted with its text as written; above the cap parse_uplink fails, with
\* InvalidField for a variable name, a group or a unit, with InvalidSerial for
\* the serial and with InvalidMetadata for a metadata key.
C10_LengthCaps ==
  pc = "limits_parsed" =>
    IF LimitsOver
    THEN /\ ~frame.ok
         /\ frame.err = (IF shape.field = "serial" THEN "InvalidSerial"
                         ELSE IF shape.field \in {"key", "bodykey"} THEN "InvalidMetadata"
                         ELSE "InvalidField")
    ELSE frame.ok /\ LimitsParsed = Rep(shape.fill, shape.len)

\* A serial of 101 bytes was rejected.
C10_Witness ==
  /\ pc = "limits_parsed"
  /\ shape.field = "serial"
  /\ shape.len = 101
  /\ ~frame.ok

\* A field of exactly its cap was accepted.
C10_WitnessAtCap ==
  /\ pc = "limits_parsed"
  /\ shape.field \in {"unit", "key"}
  /\ shape.len = LimitCap(shape.field)
  /\ frame.ok

-----------------------------------------------------------------------------
(* tagotip-secure: consts.rs *)

HEADER_SIZE == 21
FLAGS_SIZE == 1
COUNTER_SIZE == 4
AUTH_HASH_SIZE == 8
DEVICE_HASH_SIZE == 8
CCM_TAG_SIZE == 8
GCM_TAG_SIZE == 16
CCM_NONCE_SIZE == 13
GCM_NONCE_SIZE == 12
AES_128_KEY_SIZE == 16
AES_256_KEY_SIZE == 32
MAX_INNER_FRAME_SIZE == 16384
RESERVED_FLAGS_VALUE == 65
FLAGS_CIPHER_MASK == 224
FLAGS_CIPHER_SHIFT == 5
FLAGS_VERSION_MASK == 24
FLAGS_VERSION_SHIFT == 3
FLAGS_METHOD_MASK == 7

-----------------------------------------------------------------------------
(* u8 and u32 operations *)

Pow2 == <<1, 2, 4, 8, 16, 32, 64, 128, 256>>
Bit(x, k) == (x \div Pow2[k + 1]) % 2

\* The u8 whose bit k is set iff P(k).
Bits8(P(_)) ==
  LET T(k) == IF P(k) THEN Pow2[k + 1] ELSE 0
  IN T(0) + T(1) + T(2) + T(3) + T(4) + T(5) + T(6) + T(7)

BitAnd(a, b) == Bits8(LAMBDA k : Bit(a, k) = 1 /\ Bit(b, k) = 1)
BitOr(a, b) == Bits8(LAMBDA k : Bit(a, k) = 1 \/ Bit(b, k) = 1)
BitXor(a, b) == Bits8(LAMBDA k : Bit(a, k) # Bit(b, k))
\* `<<` and `>>` on a u8, for a shift of less than 8.
Shl(x, n) == (x * Pow2[n + 1]) % 256
Shr(x, n) == x \div Pow2[n + 1]

\* u32::to_be_bytes and u32::from_be_bytes.
to_be_bytes(v) == <<v.hi \div 256, v.hi % 256, v.lo \div 256, v.lo % 256>>
from_be_bytes(b) == U32(b[1] * 256 + b[2], b[3] * 256 + b[4])

-----------------------------------------------------------------------------
(* tagotip-secure: types.rs *)

CipherSuite_id(suite) ==
  IF suite = "Aes128Ccm" THEN 0
  ELSE IF suite = "Aes128Gcm" THEN 1
  ELSE IF suite = "Aes256Ccm" THEN 2
  ELSE IF suite = "Aes256Gcm" THEN 3
  ELSE 4

CipherSuite_from_id(id) ==
  IF id = 0 THEN Ok("Aes128Ccm")
  ELSE IF id = 1 THEN Ok("Aes128Gcm")
  ELSE IF id = 2 THEN Ok("Aes256Ccm")
  ELSE IF id = 3 THEN Ok("Aes256Gcm")
  ELSE IF id = 4 THEN Ok("ChaCha20Poly1305")
  ELSE Err("UnsupportedCipher")

key_size(suite) ==
  IF suite \in {"Aes128Ccm", "Aes128Gcm"} THEN AES_128_KEY_SIZE ELSE AES_256_KEY_SIZE

tag_size(suite) ==
  IF suite \in {"Aes128Ccm", "Aes256Ccm"} THEN CCM_TAG_SIZE ELSE GCM_TAG_SIZE

nonce_size(suite) ==
  IF suite \in {"Aes128Ccm", "Aes256Ccm"} THEN CCM_NONCE_SIZE ELSE GCM_NONCE_SIZE

\* cfg!(feature = ..): the suite is one of those the crate was built with.
is_enabled(suite) == suite \in features

EnvelopeMethod_id(method) ==
  IF method = "Push" THEN 0
  ELSE IF method = "Pull" THEN 1
  ELSE IF method = "Ping" THEN 2
  ELSE 3

EnvelopeMethod_from_id(id) ==
  IF id = 0 THEN Ok("Push")
  ELSE IF id = 1 THEN Ok("Pull")
  ELSE IF id = 2 THEN Ok("Ping")
  ELSE IF id = 3 THEN Ok("Ack")
  ELSE Err("InvalidMethod")

\* impl From<Method> for EnvelopeMethod
EnvelopeMethod_from(m) ==
  IF m = "Push" THEN "Push" ELSE IF m = "Pull" THEN "Pull" ELSE "Ping"

\* The byte Flags::encode puts together, before the reserved-value check.
FlagsByte(cipher, version, method) ==
  BitOr(BitOr(Shl(CipherSuite_id(cipher), FLAGS_CIPHER_SHIFT),
              Shl(version, FLAGS_VERSION_SHIFT)),
        EnvelopeMethod_id(method))

\* An encoder that lets every byte through.
FlagsEncodeUnreserved(cipher, version, method) ==
  IF version > 3 THEN Err("UnsupportedVersion")
  ELSE Ok(FlagsByte(cipher, version, method))

Flags_encode(cipher, version, method) ==
  IF version > 3 THEN Err("UnsupportedVersion")
  ELSE IF FlagsByte(cipher, version, method) = RESERVED_FLAGS_VALUE
  THEN Err("ReservedFlagsValue")
  ELSE Ok(FlagsByte(cipher, version, method))

\* A decoder that takes the version to be 0 whatever the version bits are.
FlagsDecodeVersionZero(byte) ==
  IF byte = RESERVED_FLAGS_VALUE THEN Err("ReservedFlagsValue")
  ELSE LET cipher_id == Shr(BitAnd(byte, FLAGS_CIPHER_MASK), FLAGS_CIPHER_SHIFT)
           method_id == BitAnd(byte, FLAGS_METHOD_MASK)
       IN IF ~CipherSuite_from_id(cipher_id).ok THEN Err(CipherSuite_from_id(cipher_id).err)
          ELSE IF ~EnvelopeMethod_from_id(method_id).ok
          THEN Err(EnvelopeMethod_from_id(method_id).err)
          ELSE Ok([cipher |-> CipherSuite_from_id(cipher_id).val,
                   version |-> 0,
                   method |-> EnvelopeMethod_from_id(method_id).val])

\* Flags::decode: Ok([cipher, version, method]).
Flags_decode(byte) ==
  IF byte = RESERVED_FLAGS_VALUE THEN Err("ReservedFlagsValue")
  ELSE LET cipher_id == Shr(BitAnd(byte, FLAGS_CIPHER_MASK), FLAGS_CIPHER_SHIFT)
           version == Shr(BitAnd(byte, FLAGS_VERSION_MASK), FLAGS_VERSION_SHIFT)
           method_id == BitAnd(byte, FLAGS_METHOD_MASK)
       IN IF ~CipherSuite_from_id(cipher_id).ok THEN Err(CipherSuite_from_id(cipher_id).err)
          ELSE IF ~EnvelopeMethod_from_id(method_id).ok
          THEN Err(EnvelopeMethod_from_id(method_id).err)
          ELSE Ok([cipher |-> CipherSuite_from_id(cipher_id).val,
                   version |-> version,
                   method |-> EnvelopeMethod_from_id(method_id).val])

EnvelopeHeader(flags, counter, auth_hash, device_hash) ==
  [flags |-> flags, counter |-> counter, auth_hash |-> auth_hash,
   device_hash |-> device_hash]

\* A header writer that puts the counter bytes in the opposite order.
HeaderToBytesLittleEndian(h) ==
  Overwrite(
    Overwrite(
      Overwrite(
        Overwrite(Rep(0, HEADER_SIZE), 0, <<h.flags>>),
        FLAGS_SIZE, <<h.counter.lo % 256, h.counter.lo \div 256,
                      h.counter.hi % 256, h.counter.hi \div 256>>),
      FLAGS_SIZE + COUNTER_SIZE, h.auth_hash),
    FLAGS_SIZE + COUNTER_SIZE + AUTH_HASH_SIZE, h.device_hash)

EnvelopeHeader_to_bytes(h) ==
  Overwrite(
    Overwrite(
      Overwrite(
        Overwrite(Rep(0, HEADER_SIZE), 0, <<h.flags>>),
        FLAGS_SIZE, to_be_bytes(h.counter)),
      FLAGS_SIZE + COUNTER_SIZE, h.auth_hash),
    FLAGS_SIZE + COUNTER_SIZE + AUTH_HASH_SIZE, h.device_hash)

\* A header reader that takes the counter bytes in the opposite order.
HeaderFromBytesLittleEndian(data) ==
  IF Len(data) < HEADER_SIZE THEN Err("EnvelopeTooShort")
  ELSE Ok(EnvelopeHeader(data[1],
                         from_be_bytes(<<data[5], data[4], data[3], data[2]>>),
                         Slice(data, 6, 14), Slice(data, 14, 22)))

EnvelopeHeader_from_bytes(data) ==
  IF Len(data) < HEADER_SIZE THEN Err("EnvelopeTooShort")
  ELSE Ok(EnvelopeHeader(data[1],
                         from_be_bytes(<<data[2], data[3], data[4], data[5]>>),
                         Slice(data, 6, 14), Slice(data, 14, 22)))

-----------------------------------------------------------------------------
(* tagotip-secure: nonce.rs *)

\* A nonce that leaves the flags byte out.
NonceWithoutFlags(suite, flags, device_hash, counter) ==
  Overwrite(
    Overwrite(Rep(0, nonce_size(suite)),
              nonce_size(suite) - 8, Slice(device_hash, 1, 5)),
    nonce_size(suite) - 4, to_be_bytes(counter))

construct_nonce(suite, flags, device_hash, counter) ==
  Overwrite(
    Overwrite(
      Overwrite(Rep(0, nonce_size(suite)), 0, <<flags>>),
      nonce_size(suite) - 8, Slice(device_hash, 1, 5)),
    nonce_size(suite) - 4, to_be_bytes(counter))

-----------------------------------------------------------------------------
(* tagotip-secure: hash.rs *)

\* The printable ASCII characters from 0x20 to 0x7E, in order ("GRAVE" is the
\* byte 0x60).
AsciiChars ==
  <<" ", "!", "\"", "#", "$", "%", "&", "'", "(", ")", "*", "+", ",", "-", ".", "/",
    "0", "1", "2", "3", "4", "5", "6", "7", "8", "9", ":", ";", "<", "=", ">", "?",
    "@", "A", "B", "C", "D", "E", "F", "G", "H", "I", "J", "K", "L", "M", "N", "O",
    "P", "Q", "R", "S", "T", "U", "V", "W", "X", "Y", "Z", "[", "\\", "]", "^", "_",
    "GRAVE", "a", "b", "c", "d", "e", "f", "g", "h", "i", "j", "k", "l", "m", "n", "o",
    "p", "q", "r", "s", "t", "u", "v", "w", "x", "y", "z", "{", "|", "}", "~">>

\* str::as_bytes: the byte values of a text.
Ascii(c) ==
  IF c = NUL THEN 0
  ELSE IF c = LF THEN 10
  ELSE 31 + (CHOOSE k \in 1..Len(AsciiChars) : AsciiChars[k] = c)
as_bytes(str) == Tup([i \in 1..Len(str) |-> Ascii(str[i])])

RECURSIVE SumRange(_, _, _)
SumRange(b, lo, hi) ==
  IF lo > hi THEN 0
  ELSE IF lo = hi THEN b[lo]
  ELSE SumRange(b, lo, (lo + hi) \div 2) + SumRange(b, (lo + hi) \div 2 + 1, hi)

\* Sha256::digest (crate sha2): 32 bytes that depend on every byte of the
\* message and on its length.  The digest function itself is outside the
\* repository; this stands for it.
Sha256(bytes) ==
  Force(SumRange(bytes, 1, Len(bytes)), LAMBDA sum :
    Tup([i \in 1..32 |-> (sum * i + Len(bytes) * 31 + i * i) % 256]))

derive_auth_hash(token) ==
  Force(as_bytes(IF StartsWith(token, <<"a", "t">>) THEN Slice(token, 3, Len(token) + 1)
                 ELSE token),
        LAMBDA hex_part : Slice(Sha256(hex_part), 1, AUTH_HASH_SIZE + 1))

derive_device_hash(serial) ==
  Force(as_bytes(serial), LAMBDA bytes : Slice(Sha256(bytes), 1, AUTH_HASH_SIZE + 1))

-----------------------------------------------------------------------------
(* tagotip-secure: cipher.rs *)

\* A key is its length and an identity: two keys are the same key iff they
\* have the same id.
Key(len, id) == [len |-> len, id |-> id]

\* What the AEAD primitive of a suite (crates ccm, aes-gcm, chacha20poly1305)
\* returns for encrypt: the ciphertext, as long as the plaintext, followed by
\* the tag.  The primitives are outside the repository; the model takes them
\* as ideal: the bytes below stand for the output, and decryption accepts
\* exactly what encryption has produced under the same key, nonce and
\* associated data (the variable oracle).
AeadOutput(suite, key, nonce, aad, plaintext) ==
  Force((key.id * 7 + nonce[Len(nonce)]) % 256, LAMBDA pad :
    Tup([i \in 1..Len(plaintext) |-> (plaintext[i] + pad) % 256])
    \o Tup([i \in 1..tag_size(suite) |->
              (pad + aad[(i % Len(aad)) + 1] + i + Len(plaintext)) % 256]))

AeadEntry(suite, key, nonce, aad, plaintext, ciphertext_with_tag) ==
  [suite |-> suite, key |-> key, nonce |-> nonce, aad |-> aad,
   plaintext |-> plaintext, ciphertext_with_tag |-> ciphertext_with_tag]

\* The entries of the oracle that decrypt the given bytes.
AeadMatches(suite, key, nonce, aad, ciphertext_with_tag) ==
  {e \in oracle : /\ e.suite = suite
                  /\ e.key = key
                  /\ e.nonce = nonce
                  /\ e.aad = aad
                  /\ e.ciphertext_with_tag = ciphertext_with_tag}

aead_encrypt(suite, key, nonce, aad, plaintext) ==
  IF key.len # key_size(suite) THEN Err("InvalidKeySize")
  ELSE IF ~is_enabled(suite) THEN Err("CipherNotEnabled")
  ELSE Ok(AeadOutput(suite, key, nonce, aad, plaintext))

\* A decryption that does not look at the associated data.
AeadDecryptWithoutAad(suite, key, nonce, aad, ciphertext_with_tag) ==
  IF key.len # key_size(suite) THEN Err("InvalidKeySize")
  ELSE IF ~is_enabled(suite) THEN Err("CipherNotEnabled")
  ELSE IF \E e \in oracle : /\ e.suite = suite
                            /\ e.key = key
                            /\ e.nonce = nonce
                            /\ e.ciphertext_with_tag = ciphertext_with_tag
  THEN Ok((CHOOSE e \in oracle : /\ e.suite = suite
                                 /\ e.key = key
                                 /\ e.nonce = nonce
                                 /\ e.ciphertext_with_tag = ciphertext_with_tag).plaintext)
  ELSE Err("DecryptionFailed")

aead_decrypt(suite, key, nonce, aad, ciphertext_with_tag) ==
  IF key.len # key_size(suite) THEN Err("InvalidKeySize")
  ELSE IF ~is_enabled(suite) THEN Err("CipherNotEnabled")
  ELSE IF AeadMatches(suite, key, nonce, aad, ciphertext_with_tag) # {}
  THEN Ok((CHOOSE e \in AeadMatches(suite, key, nonce, aad, ciphertext_with_tag) :
             TRUE).plaintext)
  ELSE Err("DecryptionFailed")

-----------------------------------------------------------------------------
(* tagotip-secure: envelope.rs *)

\* A check that takes every message that is not empty for an envelope.
IsEnvelopeNonEmpty(data) == data # << >>

is_envelope(data) == IF data # << >> THEN data[1] # RESERVED_FLAGS_VALUE ELSE FALSE

parse_envelope_header(envelope) ==
  IF Len(envelope) < HEADER_SIZE THEN Err("EnvelopeTooShort")
  ELSE IF ~EnvelopeHeader_from_bytes(envelope).ok
  THEN Err(EnvelopeHeader_from_bytes(envelope).err)
  ELSE IF ~Flags_decode(EnvelopeHeader_from_bytes(envelope).val.flags).ok
  THEN Err(Flags_decode(EnvelopeHeader_from_bytes(envelope).val.flags).err)
  ELSE Ok(EnvelopeHeader_from_bytes(envelope).val)

seal_raw(inner_frame, method, counter, auth_hash, device_hash, encryption_key,
         cipher_suite) ==
  IF Len(inner_frame) > MAX_INNER_FRAME_SIZE THEN Err("InnerFrameTooLarge")
  ELSE IF encryption_key.len # key_size(cipher_suite) THEN Err("InvalidKeySize")
  ELSE Force(Flags_encode(cipher_suite, 0, method), LAMBDA flags :
    IF ~flags.ok THEN Err(flags.err)
    ELSE Force([aad |-> EnvelopeHeader_to_bytes(
                          EnvelopeHeader(flags.val, counter, auth_hash, device_hash)),
                nonce |-> construct_nonce(cipher_suite, flags.val, device_hash, counter)],
               LAMBDA h :
      Force(aead_encrypt(cipher_suite, encryption_key, h.nonce, h.aad, inner_frame),
            LAMBDA ciphertext_with_tag :
        IF ~ciphertext_with_tag.ok THEN Err(ciphertext_with_tag.err)
        ELSE IF HEADER_SIZE + Len(ciphertext_with_tag.val)
                  > MAX_INNER_FRAME_SIZE + HEADER_SIZE + tag_size(cipher_suite)
        THEN Err("EnvelopeTooLarge")
        ELSE Ok(h.aad \o ciphertext_with_tag.val))))

seal_uplink(method, f, counter, auth_hash, encryption_key, cipher_suite) ==
  Force(build_headless(method, f, MAX_INNER_FRAME_SIZE), LAMBDA built :
    IF ~built.ok THEN Err("InnerFrameTooLarge")
    ELSE Force([inner_frame |-> as_bytes(Written(built)),
                device_hash |-> derive_device_hash(f.serial)],
               LAMBDA a :
           seal_raw(a.inner_frame, EnvelopeMethod_from(method), counter, auth_hash,
                    a.device_hash, encryption_key, cipher_suite)))

seal_downlink(ack, counter, auth_hash, device_hash, encryption_key, cipher_suite) ==
  Force(build_ack_inner(ack, MAX_INNER_FRAME_SIZE), LAMBDA built :
    IF ~built.ok THEN Err("InnerFrameTooLarge")
    ELSE Force(as_bytes(Written(built)), LAMBDA inner_frame :
           seal_raw(inner_frame, "Ack", counter, auth_hash, device_hash,
                    encryption_key, cipher_suite)))

\* open_envelope: Ok([header, method, plaintext]).
open_envelope(envelope, encryption_key) ==
  Force(parse_envelope_header(envelope), LAMBDA header :
    IF ~header.ok THEN Err(header.err)
    ELSE Force(Flags_decode(header.val.flags), LAMBDA d :
      IF ~d.ok THEN Err(d.err)
      ELSE IF d.val.version # 0 THEN Err("UnsupportedVersion")
      ELSE IF encryption_key.len # key_size(d.val.cipher) THEN Err("InvalidKeySize")
      ELSE IF Len(envelope) - HEADER_SIZE < tag_size(d.val.cipher)
      THEN Err("EnvelopeTooShort")
      ELSE Force([aad |-> Slice(envelope, 1, HEADER_SIZE + 1),
                  ciphertext_with_tag |-> Slice(envelope, HEADER_SIZE + 1,
                                                Len(envelope) + 1),
                  nonce |-> construct_nonce(d.val.cipher, header.val.flags,
                                            header.val.device_hash,
                                            header.val.counter)],
                 LAMBDA p :
             Force(aead_decrypt(d.val.cipher, encryption_key, p.nonce, p.aad,
                                p.ciphertext_with_tag),
                   LAMBDA plaintext :
               IF ~plaintext.ok THEN Err(plaintext.err)
               ELSE Ok([header |-> header.val, method |-> d.val.method,
                        plaintext |-> plaintext.val])))))

-----------------------------------------------------------------------------
(* Envelopes sealed, tampered with, opened *)

\* Bounds of the inputs.
MaxSmallInner == 2   \* length of the longest short inner byte string
MaxTamperLen == 39   \* the longest envelope whose bits are flipped

\* The cargo features of the build name the suites compiled in; the manifest
\* is not part of the sources, so more than one build is considered.
FeatureSets == {AllSuites, {"Aes128Ccm", "ChaCha20Poly1305"}}

EnvelopeMethods == {"Push", "Pull", "Ping", "Ack"}

SealKeys == {Key(AES_128_KEY_SIZE, 1), Key(AES_256_KEY_SIZE, 2)}
OpenKeys == SealKeys \cup {Key(AES_128_KEY_SIZE, 3), Key(AES_256_KEY_SIZE, 4)}

\* 0x00000001 and 0xABCD1234.
Counters == {U32(0, 1), U32(43981, 4660)}

AUTH_HASH == derive_auth_hash(AUTH)
DEVICE_HASH == derive_device_hash(SERIAL)

ShortInners == UNION {[1..k -> {65, 10}] : k \in 0..MaxSmallInner}
LongInners ==
  {Rep(7, CCM_TAG_SIZE), Rep(7, MAX_INNER_FRAME_SIZE), Rep(7, MAX_INNER_FRAME_SIZE + 1)}

SealArgs(via, suite, method, counter, device_hash, key, inner) ==
  [via |-> via, suite |-> suite, method |-> method, counter |-> counter,
   auth_hash |-> AUTH_HASH, device_hash |-> device_hash, key |-> key,
   inner |-> inner]

\* The calls of seal_raw: every suite, method, key and counter with the short
\* inner byte strings, every suite and key with the long ones.
RawCalls ==
  {SealArgs("seal_raw", suite, method, counter, DEVICE_HASH, key, Tup(inner)) :
     suite \in AllSuites, method \in EnvelopeMethods, counter \in Counters,
     key \in SealKeys, inner \in {<< >>, <<65, 10>>}}
  \cup {SealArgs("seal_raw", suite, "Push", U32(0, 1), DEVICE_HASH, key, Tup(inner)) :
          suite \in AllSuites, key \in SealKeys,
          inner \in (ShortInners \ {<< >>, <<65, 10>>}) \cup LongInners}

\* Headless frames with the text build_headless writes for them.
HeadlessFrames ==
  { [method |-> "Ping", text |-> SERIAL,
     frame |-> [serial |-> SERIAL, push_body |-> None, pull_body |-> None]],
    [method |-> "Pull", text |-> SERIAL,
     frame |-> [serial |-> SERIAL, push_body |-> None, pull_body |-> None]],
    [method |-> "Push", text |-> SERIAL \o <<"|", ">", "x", "0", "a">>,
     frame |-> [serial |-> SERIAL,
                push_body |-> Some([kind |-> "Passthrough", encoding |-> "Hex",
                                    data |-> <<"0", "a">>]),
                pull_body |-> None]] }

\* ACK frames with the text build_ack_inner writes for them.
AckFrames ==
  { [text |-> <<"O", "K">>,
     frame |-> [seq |-> None, status |-> "Ok", detail |-> None]],
    [text |-> <<"O", "K", "|", "3">>,
     frame |-> [seq |-> None, status |-> "Ok",
                detail |-> Some(AckDetail("Count", U32(0, 3), << >>, "None"))]] }

\* Bytes that arrive from the transport and were not sealed here.
WireBytes ==
  {<< >>}
  \cup {Tup(<<first>> \o Rep(fill, n - 1)) :
          first \in {RESERVED_FLAGS_VALUE, 0, 64, 33, 8, 89},
          n \in {1, HEADER_SIZE - 1, HEADER_SIZE, HEADER_SIZE + CCM_TAG_SIZE,
                 HEADER_SIZE + GCM_TAG_SIZE, HEADER_SIZE + GCM_TAG_SIZE + 1},
          fill \in {0, RESERVED_FLAGS_VALUE}}

\* Bit b of the bytes, counted from the most significant bit of the first
\* byte, flipped.
FlipBit(bytes, b) ==
  [bytes EXCEPT ![b \div 8 + 1] = BitXor(@, Pow2[8 - (b % 8)])]

InitEnvelope ==
  /\ pc = "idle"
  /\ shape = NoShape
  /\ input = << >>
  /\ frame = NoResult
  /\ bufcap = 0
  /\ output = NoBuilt
  /\ features \in FeatureSets
  /\ sealargs = << >>
  /\ oracle = {}
  /\ wire = NoResult
  /\ opened = NoResult

\* The state after a seal call with arguments a has returned r: on success
\* the AEAD library has encrypted a.inner under the header and nonce of r.
Sealed(a, r) ==
  /\ sealargs' = a
  /\ wire' = r
  /\ oracle' = IF r.ok
               THEN oracle \cup
                      {AeadEntry(a.suite, a.key,
                                 construct_nonce(a.suite, r.val[1], a.device_hash,
                                                 a.counter),
                                 Slice(r.val, 1, HEADER_SIZE + 1), a.inner,
                                 Slice(r.val, HEADER_SIZE + 1, Len(r.val) + 1))}
               ELSE oracle
  /\ pc' = "sealed"
  /\ UNCHANGED <<features, opened>>
  /\ UNCHANGED codecVars

SealRaw ==
  /\ pc = "idle"
  /\ \E a \in RawCalls :
       \E r \in {seal_raw(a.inner, a.method, a.counter, a.auth_hash, a.device_hash,
                          a.key, a.suite)} :
         Sealed(a, r)

SealUplink ==
  /\ pc = "idle"
  /\ \E f \in HeadlessFrames, suite \in AllSuites, key \in SealKeys :
       \E r \in {seal_uplink(f.method, f.frame, U32(0, 42), AUTH_HASH, key, suite)} :
         Sealed(SealArgs("seal_uplink", suite, f.method, U32(0, 42),
                         derive_device_hash(f.frame.serial), key, as_bytes(f.text)), r)

SealDownlink ==
  /\ pc = "idle"
  /\ \E f \in AckFrames, suite \in AllSuites, key \in SealKeys :
       \E r \in {seal_downlink(f.frame, U32(0, 1), AUTH_HASH, DEVICE_HASH, key, suite)} :
         Sealed(SealArgs("seal_downlink", suite, "Ack", U32(0, 1), DEVICE_HASH, key,
                         as_bytes(f.text)), r)

\* What the receiver of the bytes data learns with the key.
Opening(data, key) ==
  [key |-> key, open |-> open_envelope(data, key),
   header |-> parse_envelope_header(data)]

Open ==
  /\ pc = "sealed"
  /\ wire.ok
  /\ \E key \in OpenKeys : opened' = Opening(wire.val, key)
  /\ pc' = "opened"
  /\ UNCHANGED <<features, sealargs, oracle, wire>>
  /\ UNCHANGED codecVars

Tamper ==
  /\ pc = "sealed"
  /\ wire.ok
  /\ Len(wire.val) <= MaxTamperLen
  /\ \E b \in 0..(Len(wire.val) * 8 - 1) :
       /\ wire' = Ok(FlipBit(wire.val, b))
       /\ shape' = [method |-> "Flip", bit |-> b]
  /\ pc' = "tampered"
  /\ UNCHANGED <<input, frame, bufcap, output>>
  /\ UNCHANGED <<features, sealargs, oracle, opened>>

OpenTampered ==
  /\ pc = "tampered"
  /\ opened' = Opening(wire.val, sealargs.key)
  /\ pc' = "opened_tampered"
  /\ UNCHANGED <<features, sealargs, oracle, wire>>
  /\ UNCHANGED codecVars

ReceiveBytes ==
  /\ pc = "idle"
  /\ \E data \in WireBytes : wire' = Ok(data)
  /\ pc' = "wire"
  /\ UNCHANGED <<features, sealargs, oracle, opened>>
  /\ UNCHANGED codecVars

OpenReceived ==
  /\ pc = "wire"
  /\ \E key \in OpenKeys : opened' = Opening(wire.val, key)
  /\ pc' = "opened_wire"
  /\ UNCHANGED <<features, sealargs, oracle, wire>>
  /\ UNCHANGED codecVars

\* Headers written to bytes and read back, apart from any envelope.
HeaderFlags == {0, RESERVED_FLAGS_VALUE, 155, 255}
HeaderCounters == Counters \cup {U32Zero, U32(Half - 1, Half - 1)}
HeaderHashes ==
  {Rep(0, AUTH_HASH_SIZE), Rep(255, AUTH_HASH_SIZE), Tup([i \in 1..AUTH_HASH_SIZE |-> 16 * i + i])}

WriteHeader ==
  /\ pc = "idle"
  /\ \E flags \in HeaderFlags, counter \in HeaderCounters,
        auth_hash \in HeaderHashes, device_hash \in HeaderHashes :
       /\ sealargs' = EnvelopeHeader(flags, counter, auth_hash, device_hash)
       /\ wire' = Ok(EnvelopeHeader_to_bytes(
                       EnvelopeHeader(flags, counter, auth_hash, device_hash)))
  /\ pc' = "header_written"
  /\ UNCHANGED <<features, oracle, opened>>
  /\ UNCHANGED codecVars

ReadHeader ==
  /\ pc = "header_written"
  /\ opened' = EnvelopeHeader_from_bytes(wire.val)
  /\ pc' = "header_read"
  /\ UNCHANGED <<features, sealargs, oracle, wire>>
  /\ UNCHANGED codecVars

NextEnvelope ==
  \/ SealRaw
  \/ SealUplink
  \/ SealDownlink
  \/ Open
  \/ Tamper
  \/ OpenTampered
  \/ ReceiveBytes
  \/ OpenReceived
  \/ WriteHeader
  \/ ReadHeader

SpecEnvelope == InitEnvelope /\ [][NextEnvelope]_vars

-----------------------------------------------------------------------------
(* Properties of the envelopes *)

\* The last seal call was seal_raw with a key of the suite's length and an
\* inner byte string of at most MAX_INNER_FRAME_SIZE bytes.
RawCallInRange ==
  /\ pc \in {"sealed", "opened"}
  /\ sealargs.via = "seal_raw"
  /\ sealargs.key.len = key_size(sealargs.suite)
  /\ Len(sealargs.inner) <= MAX_INNER_FRAME_SIZE

\* open_envelope with the sealing key has returned the header, method and
\* inner bytes that were sealed.
OpenedAsSealed ==
  /\ opened.open.ok
  /\ opened.open.val.method = sealargs.method
  /\ opened.open.val.plaintext = sealargs.inner
  /\ opened.open.val.header.counter = sealargs.counter
  /\ opened.open.val.header.auth_hash = sealargs.auth_hash
  /\ opened.open.val.header.device_hash = sealargs.device_hash

SealsReserved == sealargs.suite = "Aes256Ccm" /\ sealargs.method = "Pull"

\* C3 as stated: for every suite (of those compiled in), method, key of the
\* suite's length, counter, hash pair and inner byte string of at most 16384
\* bytes, seal_raw succeeds and open_envelope with the same key returns what
\* was sealed.
C3_SealOpenEverySuiteAndMethod ==
  (RawCallInRange /\ sealargs.suite \in features) =>
    /\ wire.ok
    /\ (pc = "opened" /\ opened.key = sealargs.key) => OpenedAsSealed

\* C3, amended: seal_raw of the suite AES-256-CCM with the method Pull fails
\* with ReservedFlagsValue, and seal_raw of a suite that is not compiled in
\* fails with CipherNotEnabled; for every other suite and method, every key of
\* the suite's length, counter, hash pair and inner byte string of at most
\* 16384 bytes, seal_raw succeeds and open_envelope of its output with the
\* same key returns (header, method, P) with the counter and hashes sealed.
C3_SealOpenDuality ==
  RawCallInRange =>
    IF SealsReserved THEN ~wire.ok /\ wire.err = "ReservedFlagsValue"
    ELSE IF sealargs.suite \notin features
    THEN ~wire.ok /\ wire.err = "CipherNotEnabled"
    ELSE /\ wire.ok
         /\ (pc = "opened" /\ opened.key = sealargs.key) => OpenedAsSealed

C3_Witness ==
  /\ RawCallInRange
  /\ pc = "opened"
  /\ opened.key = sealargs.key
  /\ Len(sealargs.inner) = MAX_INNER_FRAME_SIZE
  /\ OpenedAsSealed

C3_WitnessAck ==
  /\ RawCallInRange
  /\ pc = "opened"
  /\ opened.key = sealargs.key
  /\ sealargs.method = "Ack"
  /\ sealargs.suite = "Aes256Gcm"
  /\ sealargs.counter = U32(43981, 4660)
  /\ OpenedAsSealed

C3_WitnessReserved == RawCallInRange /\ SealsReserved /\ ~wire.ok

C3_WitnessNotEnabled ==
  RawCallInRange /\ sealargs.suite \notin features /\ ~SealsReserved /\ ~wire.ok

\* C4 as stated: flipping any single bit of a sealed envelope makes
\* open_envelope with the correct key return DecryptionFailed.
C4_EveryFlipDecryptionFailed ==
  pc = "opened_tampered" => (~opened.open.ok /\ opened.open.err = "DecryptionFailed")

\* The errors of open_envelope that come from the flags byte.
FlagsErrors ==
  {"ReservedFlagsValue", "UnsupportedCipher", "UnsupportedVersion", "InvalidMethod",
   "InvalidKeySize", "EnvelopeTooShort", "CipherNotEnabled"}

\* C4, amended: after any single bit of a sealed envelope is flipped,
\* open_envelope with the correct key returns an error; the error is
\* DecryptionFailed when the bit is in the counter, the hashes, the ciphertext
\* or the tag, and DecryptionFailed or one of the errors of the flags byte
\* (reserved value, cipher, version, method, key size, length, suite not
\* compiled in) when the bit is in the flags byte.
C4_TamperRejected ==
  pc = "opened_tampered" =>
    /\ ~opened.open.ok
    /\ IF shape.bit >= 8 THEN opened.open.err = "DecryptionFailed"
       ELSE opened.open.err \in FlagsErrors \cup {"DecryptionFailed"}

C4_Witness ==
  /\ pc = "opened_tampered"
  /\ shape.bit \in (8 * FLAGS_SIZE + 8 * COUNTER_SIZE)
                     ..(8 * FLAGS_SIZE + 8 * COUNTER_SIZE + 8 * AUTH_HASH_SIZE - 1)
  /\ opened.open.err = "DecryptionFailed"

C4_WitnessTag ==
  /\ pc = "opened_tampered"
  /\ shape.bit = Len(wire.val) * 8 - 1
  /\ opened.open.err = "DecryptionFailed"

C4_WitnessFlags ==
  /\ pc = "opened_tampered"
  /\ shape.bit < 8
  /\ opened.open.err = "CipherNotEnabled"

C4_WitnessFlagsDecryption ==
  /\ pc = "opened_tampered"
  /\ shape.bit < 8
  /\ opened.open.err = "DecryptionFailed"

\* C5: no successful output of seal_raw, seal_uplink or seal_downlink has the
\* first byte 0x41, and open_envelope and parse_envelope_header return an
\* error on every input whose first byte is 0x41, whatever its length and
\* the key.
C5_ReservedByte ==
  /\ (pc = "sealed" /\ wire.ok) => wire.val[1] # 65
  /\ (/\ pc \in {"opened", "opened_tampered", "opened_wire"}
      /\ wire.val # << >>
      /\ wire.val[1] = 65)
       => (~opened.open.ok /\ ~opened.header.ok)

C5_Witness ==
  /\ pc = "opened_wire"
  /\ Len(wire.val) > HEADER_SIZE + GCM_TAG_SIZE
  /\ wire.val[1] = 65
  /\ ~opened.open.ok
  /\ ~opened.header.ok

C5_WitnessShort ==
  pc = "opened_wire" /\ Len(wire.val) = 1 /\ wire.val[1] = 65 /\ ~opened.open.ok

C5_WitnessTampered ==
  pc = "opened_tampered" /\ wire.val[1] = 65 /\ opened.open.err = "ReservedFlagsValue"

C5_WitnessSealed ==
  pc = "sealed" /\ wire.ok /\ sealargs.via = "seal_uplink" /\ sealargs.method = "Pull"

C5_WitnessRefused ==
  /\ pc = "sealed"
  /\ sealargs.via = "seal_uplink"
  /\ ~wire.ok
  /\ wire.err = "ReservedFlagsValue"

-----------------------------------------------------------------------------
(* Frames at the size limit *)

FrameSlack == 2   \* how far below and above the limit the frame lengths go

\* A valid PUSH frame whose content is len bytes, made that long by a string
\* value of fill bytes, with or without the `\n` of the transport after it.
SizeShape(len, fill, nl) == [method |-> "Size", len |-> len, fill |-> fill, nl |-> nl]

SizeShapes ==
  {SizeShape(MAX_FRAME_SIZE + d, fill, nl) :
     d \in (0 - FrameSlack)..FrameSlack, fill \in {"x", "7", "_", "A", " ", "-"},
     nl \in BOOLEAN}

SizeHead == <<"P", "U", "S", "H", "|">> \o AUTH \o <<"|">> \o SERIAL \o <<"|", "[", "m", "=">>

SizeText(sh) ==
  SizeHead \o Rep(sh.fill, sh.len - Len(SizeHead) - 1) \o <<"]">>
  \o (IF sh.nl THEN <<LF>> ELSE << >>)

ReceiveSize ==
  /\ pc = "idle"
  /\ \E sh \in SizeShapes :
       /\ shape' = sh
       /\ input' = Tup(SizeText(sh))
  /\ pc' = "size_received"
  /\ UNCHANGED <<frame, bufcap, output>>
  /\ UNCHANGED secureVars

ParseSize ==
  /\ pc = "size_received"
  /\ frame' = parse_uplink(input)
  /\ pc' = "size_parsed"
  /\ UNCHANGED <<shape, input, bufcap, output>>
  /\ UNCHANGED secureVars

NextSize == ReceiveSize \/ ParseSize

SpecSize == Init /\ [][NextSize]_vars

\* C11: the limit counts the frame without the optional trailing newline: a
\* valid frame of at most 16384 bytes is accepted without and with one
\* trailing `\n`, and FrameTooLarge is returned exactly when the content
\* without that newline is longer than 16384 bytes.
C11_LimitExcludesNewline ==
  pc = "size_parsed" =>
    IF shape.len > 16384 THEN ~frame.ok /\ frame.err = "FrameTooLarge"
    ELSE frame.ok

-----------------------------------------------------------------------------
(* ACK frames with a NUL byte, ACK frames at the size limit *)

\* An ACK frame with a NUL byte at the place `where`, or (where = "long")
\* without one and made len bytes long by its detail.
PreShape(seq, status, where, len) ==
  [method |-> "AckPre", seq |-> seq, status |-> status, where |-> where, len |-> len]

NulPlaces == {"ack", "status", "detail_first", "detail_last", "detail_only"}

PreShapes ==
  {PreShape(seq, status, where, 0) :
     seq \in {None, Some(<<"7">>)}, status \in {"Ok", "Pong", "Cmd", "Err"},
     where \in NulPlaces}
  \cup {PreShape(seq, status, "long", MAX_FRAME_SIZE + d) :
          seq \in {None, Some(<<"7">>)}, status \in {"Ok", "Pong", "Cmd", "Err"},
          d \in (0 - FrameSlack)..FrameSlack}

PreHead(sh) ==
  <<"A", "C", "K">> \o (IF sh.where = "ack" THEN <<NUL>> ELSE << >>)
  \o (IF sh.seq # None THEN <<"|", "!">> \o sh.seq[1] ELSE << >>)
  \o <<"|">> \o StatusStr(sh.status) \o (IF sh.where = "status" THEN <<NUL>> ELSE << >>)
  \o <<"|">>

PreText(sh) ==
  PreHead(sh)
  \o (IF sh.where = "long" THEN Rep("x", sh.len - Len(PreHead(sh)))
      ELSE IF sh.where = "detail_first" THEN <<NUL, "a", "b">>
      ELSE IF sh.where = "detail_last" THEN <<"a", "b", NUL>>
      ELSE IF sh.where = "detail_only" THEN <<NUL>>
      ELSE <<"a", "b">>)

ReceiveAckPre ==
  /\ pc = "idle"
  /\ \E sh \in PreShapes :
       /\ shape' = sh
       /\ input' = Tup(PreText(sh))
  /\ pc' = "ackpre_received"
  /\ UNCHANGED <<frame, bufcap, output>>
  /\ UNCHANGED secureVars

ParseAckPre ==
  /\ pc = "ackpre_received"
  /\ frame' = parse_ack(input)
  /\ pc' = "ackpre_parsed"
  /\ UNCHANGED <<shape, input, bufcap, output>>
  /\ UNCHANGED secureVars

NextAckPre == ReceiveAckPre \/ ParseAckPre

SpecAckPre == Init /\ [][NextAckPre]_vars

\* C12: parse_ack rejects every input that contains a NUL byte and every
\* input longer than 16384 bytes.
C12_AckPreconditions ==
  (/\ pc = "ackpre_parsed"
   /\ \/ \E k \in 1..Len(input) : input[k] = NUL
      \/ Len(input) > 16384)
    => ~frame.ok

-----------------------------------------------------------------------------
(* Frames with a raw newline byte *)

\* Valid frames without a newline: PING, PULL, PUSH with a structured body
\* and PUSH with a passthrough body.
NewlineBases ==
  { <<"P", "I", "N", "G", "|">> \o AUTH \o <<"|">> \o SERIAL,
    <<"P", "U", "L", "L", "|">> \o AUTH \o <<"|">> \o SERIAL
      \o <<"|", "[", "a", ";", "b", "]">>,
    <<"P", "U", "S", "H", "|">> \o AUTH \o <<"|">> \o SERIAL
      \o <<"|", "^", "g", "[", "x", "=", "h", "i", "#", "u", "]">>,
    <<"P", "U", "S", "H", "|">> \o AUTH \o <<"|">> \o SERIAL
      \o <<"|", ">", "x", "0", "a">> }

\* The frame base with a newline byte put in after its first `at` bytes, and
\* with or without the `\n` of the transport after it.
NewlineShape(base, at, nl) == [method |-> "Newline", base |-> base, at |-> at, nl |-> nl]

NewlineShapes ==
  UNION {{NewlineShape(base, at, nl) : at \in 0..Len(base), nl \in BOOLEAN} :
           base \in NewlineBases}

NewlineText(sh) ==
  SubSeq(sh.base, 1, sh.at) \o <<LF>> \o SubSeq(sh.base, sh.at + 1, Len(sh.base))
  \o (IF sh.nl THEN <<LF>> ELSE << >>)

ReceiveNewline ==
  /\ pc = "idle"
  /\ \E sh \in NewlineShapes :
       /\ shape' = sh
       /\ input' = NewlineText(sh)
  /\ pc' = "newline_received"
  /\ UNCHANGED <<frame, bufcap, output>>
  /\ UNCHANGED secureVars

ParseNewline ==
  /\ pc = "newline_received"
  /\ frame' = parse_uplink(input)
  /\ pc' = "newline_parsed"
  /\ UNCHANGED <<shape, input, bufcap, output>>
  /\ UNCHANGED secureVars

NextNewline == ReceiveNewline \/ ParseNewline

SpecNewline == Init /\ [][NextNewline]_vars

\* C13: parse_uplink rejects every input that has a newline byte anywhere
\* other than as its last byte (an input that ends in two newlines included),
\* for all three methods and for structured and passthrough bodies.
C13_NewlineOnlyLast ==
  (/\ pc = "newline_parsed"
   /\ \E k \in 1..(Len(input) - 1) : input[k] = LF)
    => ~frame.ok

-----------------------------------------------------------------------------
(* Frames with every kind of AUTH field *)

AuthSlack == 1   \* how far below and above 32 the length after the prefix goes

AuthPrefixes == {<<"a", "t">>, <<"A", "t">>, <<"a", "T">>, <<"t", "a">>, <<"a", "0">>}

\* Bytes that are not hexadecimal digits: the neighbours of the digit and
\* letter ranges in ASCII, and some others.
NonHex == {"g", "G", "/", ":", "@", " ", "-", NUL}

\* The bytes after the prefix: n hexadecimal digits, or n bytes of which the
\* first, the middle or the last one is not a hexadecimal digit.
AuthTails(n) ==
  {Rep(c, n) : c \in {"0", "9", "a", "f", "A", "F"}}
  \cup {[Rep("b", n) EXCEPT ![k] = b] : k \in {1, n \div 2, n}, b \in NonHex}

AuthFields ==
  {<< >>}
  \cup {Tup(p \o t) : p \in AuthPrefixes,
                      t \in UNION {AuthTails(32 + d) : d \in (0 - AuthSlack)..AuthSlack}}

AuthShape(method, seq, auth) ==
  [method |-> method, seq |-> seq, auth |-> auth]

\* The frame of the shape: every field but the auth field is valid.
AuthText(sh) ==
  MethodStr(sh.method)
  \o (IF sh.seq # None THEN <<"|", "!">> \o sh.seq[1] ELSE << >>)
  \o <<"|">> \o sh.auth \o <<"|">> \o SERIAL
  \o (IF sh.method = "Push" THEN <<"|", "[", "x", ":", "=", "1", "]">>
      ELSE IF sh.method = "Pull" THEN <<"|", "[", "x", "]">>
      ELSE << >>)

ReceiveAuth ==
  /\ pc = "idle"
  /\ \E method \in {"Push", "Pull", "Ping"}, seq \in {None, Some(<<"7">>)},
        auth \in AuthFields :
       /\ shape' = AuthShape(method, seq, auth)
       /\ input' = AuthText(AuthShape(method, seq, auth))
  /\ pc' = "auth_received"
  /\ UNCHANGED <<frame, bufcap, output>>
  /\ UNCHANGED secureVars

ParseAuth ==
  /\ pc = "auth_received"
  /\ frame' = parse_uplink(input)
  /\ pc' = "auth_parsed"
  /\ UNCHANGED <<shape, input, bufcap, output>>
  /\ UNCHANGED secureVars

\* The caller validates the token on its own.
ValidateAuth ==
  /\ pc = "auth_received"
  /\ frame' = validate_auth(shape.auth)
  /\ pc' = "auth_validated"
  /\ UNCHANGED <<shape, input, bufcap, output>>
  /\ UNCHANGED secureVars

NextAuth == ReceiveAuth \/ ParseAuth \/ ValidateAuth

SpecAuth == Init /\ [][NextAuth]_vars

\* `at` followed by exactly 32 hexadecimal digits of either case.
AuthWellFormed(a) ==
  /\ Len(a) = 34
  /\ a[1] = "a"
  /\ a[2] = "t"
  /\ \A k \in 3..34 :
       a[k] \in {"0", "1", "2", "3", "4", "5", "6", "7", "8", "9",
                 "a", "b", "c", "d", "e", "f", "A", "B", "C", "D", "E", "F"}

C14_WitnessTooLong ==
  /\ pc = "auth_parsed"
  /\ shape.auth = <<"a", "t">> \o Rep("0", 33)
  /\ frame.err = "InvalidAuth"

C14_WitnessNonHex ==
  /\ pc = "auth_validated"
  /\ Len(shape.auth) = 34
  /\ shape.auth[34] = "g"
  /\ frame.err = "InvalidAuth"

C14_WitnessPrefix ==
  /\ pc = "auth_parsed"
  /\ shape.auth = <<"A", "t">> \o Rep("0", 32)
  /\ frame.err = "InvalidAuth"

-----------------------------------------------------------------------------
(* The order of the checks of open_envelope *)

\* The fields of the flags byte of the bytes on the wire, read off the byte.
WireCipher == wire.val[1] \div 32
WireVersion == (wire.val[1] \div 8) % 4
WireMethod == wire.val[1] % 8
WireTagSize == IF WireCipher \in {0, 2} THEN 8 ELSE 16

WireOpened ==
  /\ pc \in {"opened", "opened_tampered", "opened_wire"}
  /\ wire.val # << >>

\* C15: open_envelope checks the minimum length (21 + tag size), then the
\* flags (reserved byte, cipher, method, version 0), then the key length, then
\* decrypts: an envelope with valid flags that is shorter than 21 + tag size
\* yields EnvelopeTooShort whatever the key length, and an envelope of at
\* least 21 bytes with a known cipher and method and version bits other than 0
\* yields UnsupportedVersion before any key-length error.
C15_OpenCheckOrder ==
  WireOpened =>
    /\ (/\ wire.val[1] # 65
        /\ WireCipher <= 4
        /\ WireMethod <= 3
        /\ WireVersion = 0
        /\ Len(wire.val) < 21 + WireTagSize)
         => (~opened.open.ok /\ opened.open.err = "EnvelopeTooShort")
    /\ (/\ Len(wire.val) >= 21
        /\ WireCipher <= 4
        /\ WireMethod <= 3
        /\ WireVersion # 0)
         => (~opened.open.ok /\ opened.open.err = "UnsupportedVersion")

-----------------------------------------------------------------------------
(* Flags bytes encoded and decoded *)

MaxVersion == 4   \* the largest version handed to Flags::encode

EncodeFlags ==
  /\ pc = "idle"
  /\ \E suite \in AllSuites, version \in 0..MaxVersion, method \in EnvelopeMethods :
       /\ sealargs' = [via |-> "Flags::encode", suite |-> suite, version |-> version,
                       method |-> method]
       /\ \E r \in {Flags_encode(suite, version, method)} :
            wire' = IF r.ok THEN Ok(<<r.val>>) ELSE Err(r.err)
  /\ pc' = "flags_encoded"
  /\ UNCHANGED <<features, oracle, opened>>
  /\ UNCHANGED codecVars

DecodeEncoded ==
  /\ pc = "flags_encoded"
  /\ wire.ok
  /\ opened' = Flags_decode(wire.val[1])
  /\ pc' = "flags_decoded"
  /\ UNCHANGED <<features, sealargs, oracle, wire>>
  /\ UNCHANGED codecVars

\* Any byte arrives as the first byte of an envelope.
ReceiveFlags ==
  /\ pc = "idle"
  /\ \E byte \in 0..255 : wire' = Ok(<<byte>>)
  /\ pc' = "flags_received"
  /\ UNCHANGED <<features, sealargs, oracle, opened>>
  /\ UNCHANGED codecVars

DecodeReceived ==
  /\ pc = "flags_received"
  /\ opened' = Flags_decode(wire.val[1])
  /\ pc' = "byte_decoded"
  /\ UNCHANGED <<features, sealargs, oracle, wire>>
  /\ UNCHANGED codecVars

NextFlags == EncodeFlags \/ DecodeEncoded \/ ReceiveFlags \/ DecodeReceived

SpecFlags == Init /\ [][NextFlags]_vars

\* The ids the specification gives the suites and the methods.
SuiteIdOf ==
  [Aes128Ccm |-> 0, Aes128Gcm |-> 1, Aes256Ccm |-> 2, Aes256Gcm |-> 3,
   ChaCha20Poly1305 |-> 4]
MethodIdOf == [Push |-> 0, Pull |-> 1, Ping |-> 2, Ack |-> 3]

\* C16: the flags byte is cipher id * 32 + version * 8 + method id; for every
\* suite, version 0..3 and method whose byte is not 0x41, decode of encode
\* gives the suite, version and method back; encode fails with
\* ReservedFlagsValue only for (AES-256-CCM, 0, Pull); decode rejects the
\* cipher ids 5..7 with UnsupportedCipher and, for a known cipher, the method
\* ids 4..7 with InvalidMethod.
C16_FlagsPacking ==
  /\ (pc \in {"flags_encoded", "flags_decoded"} /\ sealargs.version <= 3) =>
       IF sealargs.suite = "Aes256Ccm" /\ sealargs.version = 0 /\ sealargs.method = "Pull"
       THEN ~wire.ok /\ wire.err = "ReservedFlagsValue"
       ELSE /\ wire.ok
            /\ wire.val[1] = SuiteIdOf[sealargs.suite] * 32 + sealargs.version * 8
                               + MethodIdOf[sealargs.method]
            /\ pc = "flags_decoded" =>
                 /\ opened.ok
                 /\ opened.val = [cipher |-> sealargs.suite,
                                  version |-> sealargs.version,
                                  method |-> sealargs.method]
  /\ pc = "byte_decoded" =>
       /\ wire.val[1] \div 32 >= 5 => (~opened.ok /\ opened.err = "UnsupportedCipher")
       /\ (wire.val[1] \div 32 <= 4 /\ wire.val[1] % 8 >= 4)
            => (~opened.ok /\ opened.err = "InvalidMethod")

C16_Witness ==
  /\ pc = "flags_decoded"
  /\ sealargs.suite = "ChaCha20Poly1305"
  /\ sealargs.version = 3
  /\ sealargs.method = "Ack"
  /\ wire.val = <<155>>
  /\ opened.ok

C16_WitnessReserved ==
  pc = "flags_encoded" /\ sealargs.version = 0 /\ ~wire.ok /\ wire.err = "ReservedFlagsValue"

C16_WitnessCipher == pc = "byte_decoded" /\ wire.val = <<160>> /\ opened.err = "UnsupportedCipher"

C16_WitnessMethod == pc = "byte_decoded" /\ wire.val = <<135>> /\ opened.err = "InvalidMethod"

-----------------------------------------------------------------------------
(* The layout of the envelope *)

\* The bytes of the envelope on the wire after the header.
WireCiphertext == Slice(wire.val, HEADER_SIZE + 1, Len(wire.val) + 1)

\* C17: a successful seal output is the 21-byte header (flags, big-endian
\* counter, auth_hash, device_hash) followed by the ciphertext and tag, of
\* length 21 + |inner| + tag size (8 for the CCM suites, 16 for the others);
\* these 21 bytes are the associated data of the encryption and of the
\* decryption; and from_bytes(to_bytes(h)) = h for every header h.
C17_EnvelopeLayout ==
  /\ (pc = "sealed" /\ wire.ok) =>
       /\ Len(wire.val) = 21 + Len(sealargs.inner)
                            + (IF sealargs.suite \in {"Aes128Ccm", "Aes256Ccm"}
                               THEN 8 ELSE 16)
       /\ wire.val[1] = SuiteIdOf[sealargs.suite] * 32 + MethodIdOf[sealargs.method]
       /\ wire.val[2] = sealargs.counter.hi \div 256
       /\ wire.val[3] = sealargs.counter.hi % 256
       /\ wire.val[4] = sealargs.counter.lo \div 256
       /\ wire.val[5] = sealargs.counter.lo % 256
       /\ \A i \in 1..8 : /\ wire.val[5 + i] = sealargs.auth_hash[i]
                          /\ wire.val[13 + i] = sealargs.device_hash[i]
       /\ WireCiphertext
            = AeadOutput(sealargs.suite, sealargs.key,
                         construct_nonce(sealargs.suite, wire.val[1],
                                         sealargs.device_hash, sealargs.counter),
                         Slice(wire.val, 1, 22), sealargs.inner)
  /\ (WireOpened /\ opened.open.ok) =>
       \E e \in oracle : /\ e.aad = Slice(wire.val, 1, 22)
                         /\ e.ciphertext_with_tag = WireCiphertext
                         /\ e.plaintext = opened.open.val.plaintext
  /\ pc = "header_read" => (opened.ok /\ opened.val = sealargs)

C17_Witness ==
  /\ pc = "sealed"
  /\ wire.ok
  /\ sealargs.suite = "Aes128Ccm"
  /\ sealargs.counter = U32(43981, 4660)
  /\ Len(wire.val) = 31
  /\ Slice(wire.val, 1, 6) = <<0, 171, 205, 18, 52>>

C17_WitnessLong ==
  /\ pc = "sealed"
  /\ wire.ok
  /\ sealargs.suite = "ChaCha20Poly1305"
  /\ Len(wire.val) = 21 + 16384 + 16

C17_WitnessOpened == pc = "opened" /\ opened.open.ok /\ Len(wire.val) > 21 + 16

C17_WitnessHeader ==
  /\ pc = "header_read"
  /\ sealargs.flags = 65
  /\ sealargs.counter = U32(43981, 4660)
  /\ opened.ok
  /\ opened.val = sealargs

-----------------------------------------------------------------------------
(* Nonces constructed in pairs *)

NonceFlags == {0, 8, 155}
NonceCounters == {U32(0, 1), U32(0, 256), U32(1, 0), U32(43981, 4660)}
\* Device hashes that differ in the first byte, in the fourth and in the fifth.
NonceHashes ==
  {DEVICE_HASH,
   [DEVICE_HASH EXCEPT ![1] = (@ + 1) % 256],
   [DEVICE_HASH EXCEPT ![4] = (@ + 1) % 256],
   [DEVICE_HASH EXCEPT ![5] = (@ + 1) % 256]}

NonceArgs ==
  [flags : NonceFlags, device_hash : NonceHashes, counter : NonceCounters]

\* The first nonce is kept in wire, the second in opened.
FirstNonce ==
  /\ pc = "idle"
  /\ \E suite \in AllSuites, a \in NonceArgs :
       /\ sealargs' = [suite |-> suite, first |-> a, second |-> a]
       /\ wire' = Ok(construct_nonce(suite, a.flags, a.device_hash, a.counter))
  /\ pc' = "nonce_first"
  /\ UNCHANGED <<features, oracle, opened>>
  /\ UNCHANGED codecVars

SecondNonce ==
  /\ pc = "nonce_first"
  /\ \E b \in NonceArgs :
       /\ sealargs' = [sealargs EXCEPT !.second = b]
       /\ opened' = Ok(construct_nonce(sealargs.suite, b.flags, b.device_hash,
                                       b.counter))
  /\ pc' = "nonce_second"
  /\ UNCHANGED <<features, oracle, wire>>
  /\ UNCHANGED codecVars

NextNonce == FirstNonce \/ SecondNonce

SpecNonce == Init /\ [][NextNonce]_vars

\* The nonce the specification lays out for the suite and the arguments a.
NonceLayout(suite, a) ==
  <<a.flags>>
  \o (IF suite \in {"Aes128Ccm", "Aes256Ccm"} THEN <<0, 0, 0, 0>> ELSE <<0, 0, 0>>)
  \o <<a.device_hash[1], a.device_hash[2], a.device_hash[3], a.device_hash[4]>>
  \o <<a.counter.hi \div 256, a.counter.hi % 256,
       a.counter.lo \div 256, a.counter.lo % 256>>

\* C18: construct_nonce returns 13 bytes for the CCM suites and 12 bytes for
\* the others: the flags byte, zero padding (4 bytes for CCM, 3 otherwise),
\* the first four bytes of device_hash and the big-endian counter; within
\* one suite two nonces are equal iff the flags, the first four device-hash
\* bytes and the counter are equal.
C18_NonceLayout ==
  /\ pc \in {"nonce_first", "nonce_second"} =>
       /\ Len(wire.val) = IF sealargs.suite \in {"Aes128Ccm", "Aes256Ccm"}
                          THEN 13 ELSE 12
       /\ wire.val = NonceLayout(sealargs.suite, sealargs.first)
  /\ pc = "nonce_second" =>
       /\ opened.val = NonceLayout(sealargs.suite, sealargs.second)
       /\ (wire.val = opened.val)
            <=> /\ sealargs.first.flags = sealargs.second.flags
                /\ \A i \in 1..4 :
                     sealargs.first.device_hash[i] = sealargs.second.device_hash[i]
                /\ sealargs.first.counter = sealargs.second.counter

C18_Witness ==
  /\ pc = "nonce_second"
  /\ sealargs.suite = "Aes256Ccm"
  /\ sealargs.first.device_hash # sealargs.second.device_hash
  /\ wire.val = opened.val
  /\ Len(wire.val) = 13

C18_WitnessDistinct ==
  /\ pc = "nonce_second"
  /\ sealargs.suite = "ChaCha20Poly1305"
  /\ sealargs.first.device_hash = sealargs.second.device_hash
  /\ sealargs.first.counter = sealargs.second.counter
  /\ sealargs.first.flags # sealargs.second.flags
  /\ wire.val # opened.val
  /\ Len(wire.val) = 12

-----------------------------------------------------------------------------
(* Inputs with more pipes than fields *)

MaxPieces == 9   \* the largest number of pipe-separated pieces of an input

\* A piece without a pipe, and a piece with an escaped pipe.
PieceToks == {<<"a">>, <<BSL, "|", "b">>}

SplitShape(kind, pieces) == [method |-> "Split", kind |-> kind, pieces |-> pieces]

SplitShapes ==
  {SplitShape(kind, Tup(pieces)) :
     kind \in {"uplink", "ack"}, pieces \in SeqsUpTo(PieceToks, MaxPieces) \ {<< >>}}

\* An uplink input is the pieces joined with pipes; an ACK input is ACK|CMD|
\* and a detail made of the pieces joined with pipes.
SplitText(sh) ==
  (IF sh.kind = "ack" THEN <<"A", "C", "K", "|", "C", "M", "D", "|">> ELSE << >>)
  \o JoinWith(sh.pieces, <<"|">>)

ReceiveSplit ==
  /\ pc = "idle"
  /\ \E sh \in SplitShapes :
       /\ shape' = sh
       /\ input' = SplitText(sh)
  /\ pc' = "split_received"
  /\ UNCHANGED <<frame, bufcap, output>>
  /\ UNCHANGED secureVars

\* Both parse_uplink and ack::parse_ack start with this call.
SplitFields ==
  /\ pc = "split_received"
  /\ frame' = Ok(split_fields(input))
  /\ pc' = "split_done"
  /\ UNCHANGED <<shape, input, bufcap, output>>
  /\ UNCHANGED secureVars

ParseSplitAck ==
  /\ pc = "split_received"
  /\ shape.kind = "ack"
  /\ frame' = parse_ack(input)
  /\ pc' = "split_ack_parsed"
  /\ UNCHANGED <<shape, input, bufcap, output>>
  /\ UNCHANGED secureVars

NextSplit == ReceiveSplit \/ SplitFields \/ ParseSplitAck

SpecSplit == Init /\ [][NextSplit]_vars

\* C19: splitting on unescaped pipes yields at most 8 fields for an uplink
\* frame and at most 4 fields for an ACK frame; the fields joined with pipes
\* are the input; and the detail of a parsed ACK keeps the further pipes it
\* contains.
C19_SplitCapacity ==
  /\ pc = "split_done" =>
       /\ Len(frame.val) <= (IF shape.kind = "ack" THEN 4 ELSE 8)
       /\ JoinWith(frame.val, <<"|">>) = input
  /\ pc = "split_ack_parsed" =>
       /\ frame.ok
       /\ frame.val.detail # None
       /\ frame.val.detail[1].text = JoinWith(shape.pieces, <<"|">>)

\* The parts of C19 that do not depend on the capacity of the ACK fields.
C19_UplinkSplit ==
  pc = "split_done" =>
    /\ Len(frame.val) <= 8
    /\ JoinWith(frame.val, <<"|">>) = input
    /\ (shape.kind = "uplink" /\ Len(shape.pieces) > 8) =>
         frame.val[8] = JoinWith(SubSeq(shape.pieces, 8, Len(shape.pieces)), <<"|">>)

-----------------------------------------------------------------------------
(* ACK frames with every kind of DETAIL *)

\* The 11 error codes with their texts.
CodeTable ==
  { [text |-> <<"i", "n", "v", "a", "l", "i", "d", "_", "t", "o", "k", "e", "n">>,
     code |-> "InvalidToken"],
    [text |-> <<"i", "n", "v", "a", "l", "i", "d", "_", "m", "e", "t", "h", "o", "d">>,
     code |-> "InvalidMethod"],
    [text |-> <<"i", "n", "v", "a", "l", "i", "d", "_", "p", "a", "y", "l", "o", "a", "d">>,
     code |-> "InvalidPayload"],
    [text |-> <<"i", "n", "v", "a", "l", "i", "d", "_", "s", "e", "q">>,
     code |-> "InvalidSeq"],
    [text |-> <<"d", "e", "v", "i", "c", "e", "_", "n", "o", "t", "_", "f", "o", "u", "n", "d">>,
     code |-> "DeviceNotFound"],
    [text |-> <<"v", "a", "r", "i", "a", "b", "l", "e", "_", "n", "o", "t", "_", "f", "o", "u", "n", "d">>,
     code |-> "VariableNotFound"],
    [text |-> <<"r", "a", "t", "e", "_", "l", "i", "m", "i", "t", "e", "d">>,
     code |-> "RateLimited"],
    [text |-> <<"a", "u", "t", "h", "_", "f", "a", "i", "l", "e", "d">>,
     code |-> "AuthFailed"],
    [text |-> <<"u", "n", "s", "u", "p", "p", "o", "r", "t", "e", "d", "_", "v", "e", "r", "s", "i", "o", "n">>,
     code |-> "UnsupportedVersion"],
    [text |-> <<"p", "a", "y", "l", "o", "a", "d", "_", "t", "o", "o", "_", "l", "a", "r", "g", "e">>,
     code |-> "PayloadTooLarge"],
    [text |-> <<"s", "e", "r", "v", "e", "r", "_", "e", "r", "r", "o", "r">>,
     code |-> "ServerError"] }

\* Detail texts with the count they spell, if any, and whether they hold an
\* unescaped pipe.
PlainDetails ==
  { [text |-> << >>, count |-> None, piped |-> FALSE],
    [text |-> <<"7">>, count |-> Some(U32(0, 7)), piped |-> FALSE],
    [text |-> <<"0", "0", "7">>, count |-> Some(U32(0, 7)), piped |-> FALSE],
    [text |-> <<"0">>, count |-> Some(U32Zero), piped |-> FALSE],
    [text |-> <<"4", "2", "9", "4", "9", "6", "7", "2", "9", "5">>, count |-> Some(U32(Half - 1, Half - 1)), piped |-> FALSE],
    [text |-> <<"4", "2", "9", "4", "9", "6", "7", "2", "9", "6">>, count |-> None, piped |-> FALSE],
    [text |-> <<"-", "1">>, count |-> None, piped |-> FALSE],
    [text |-> <<"1", "x">>, count |-> None, piped |-> FALSE],
    [text |-> <<"[", "a", ";", "b", "]">>, count |-> None, piped |-> FALSE],
    [text |-> <<"[">>, count |-> None, piped |-> FALSE],
    [text |-> <<"x">>, count |-> None, piped |-> FALSE],
    [text |-> <<"x", "=", "1">>, count |-> None, piped |-> FALSE],
    [text |-> <<"a", BSL, "|", "b">>, count |-> None, piped |-> FALSE],
    [text |-> <<"z", "z">>, count |-> None, piped |-> FALSE],
    [text |-> <<"R", "A", "T", "E", "_", "L", "I", "M", "I", "T", "E", "D">>, count |-> None, piped |-> FALSE],
    [text |-> <<"r", "a", "t", "e", "_", "l", "i", "m", "i", "t", "e", "d", " ">>, count |-> None, piped |-> FALSE],
    [text |-> <<"a", "|", "b">>, count |-> None, piped |-> TRUE],
    [text |-> <<"7", "|", "8">>, count |-> None, piped |-> TRUE],
    [text |-> <<"[", "a", "]", "|", "x">>, count |-> None, piped |-> TRUE],
    [text |-> <<"r", "a", "t", "e", "_", "l", "i", "m", "i", "t", "e", "d", "|", "x">>, count |-> None, piped |-> TRUE] }

DetailTexts ==
  PlainDetails \cup {[text |-> c.text, count |-> None, piped |-> FALSE] : c \in CodeTable}

DetailShape(seq, status, detail, nl) ==
  [method |-> "Detail", seq |-> seq, status |-> status, detail |-> detail, nl |-> nl]

DetailShapes ==
  {DetailShape(seq, status, detail, nl) :
     seq \in {None, Some(<<"7">>)}, status \in {"Ok", "Pong", "Cmd", "Err"},
     detail \in DetailTexts, nl \in BOOLEAN}

ReceiveDetail ==
  /\ pc = "idle"
  /\ \E sh \in DetailShapes :
       /\ shape' = sh
       /\ input' = AckText(AckShape(sh.seq, sh.status, Some(sh.detail.text), sh.nl))
  /\ pc' = "detail_received"
  /\ UNCHANGED <<frame, bufcap, output>>
  /\ UNCHANGED secureVars

ParseDetail ==
  /\ pc = "detail_received"
  /\ frame' = parse_ack(input)
  /\ pc' = "detail_parsed"
  /\ UNCHANGED <<shape, input, bufcap, output>>
  /\ UNCHANGED secureVars

NextDetail == ReceiveDetail \/ ParseDetail

SpecDetail == Init /\ [][NextDetail]_vars

\* The code the specification gives the text of an ERR detail.
CodeOfText(text) ==
  IF \E c \in CodeTable : c.text = text
  THEN (CHOOSE c \in CodeTable : c.text = text).code
  ELSE "Unknown"

\* The detail the specification gives the status and the detail text d.
DetailByStatus(status, d) ==
  IF status = "Ok"
  THEN IF d.text # << >> /\ d.text[1] = "["
       THEN AckDetail("Variables", U32Zero, d.text, "None")
       ELSE IF d.count # None THEN AckDetail("Count", d.count[1], << >>, "None")
       ELSE AckDetail("Raw", U32Zero, d.text, "None")
  ELSE IF status = "Pong" THEN AckDetail("Raw", U32Zero, d.text, "None")
  ELSE IF status = "Cmd" THEN AckDetail("Command", U32Zero, d.text, "None")
  ELSE AckDetail("Error", U32Zero, d.text, CodeOfText(d.text))

\* C20: parse_ack never rejects a frame for its DETAIL and interprets it by
\* status: for OK Variables when it starts with `[`, Count when it is an
\* unsigned decimal that fits u32, Raw otherwise; for PONG Raw; for CMD
\* Command with the entire detail; for ERR Error with the code of the
\* 11-code table or Unknown, and the original text.
C20_DetailByStatus ==
  pc = "detail_parsed" =>
    /\ frame.ok
    /\ frame.val.status = shape.status
    /\ frame.val.detail = Some(DetailByStatus(shape.status, shape.detail))

\* The same for the details without an unescaped pipe.
C20_DetailWithoutPipe ==
  (pc = "detail_parsed" /\ ~shape.detail.piped) =>
    /\ frame.ok
    /\ frame.val.status = shape.status
    /\ frame.val.detail = Some(DetailByStatus(shape.status, shape.detail))

-----------------------------------------------------------------------------
(* escape.rs *)

\* `const STRUCTURAL: &[u8] = b"|[];,{}#@^\\\n"`
STRUCTURAL == {"|", "[", "]", ";", ",", "{", "}", "#", "@", "^", BSL, LF}

needs_escape(b) == b \in STRUCTURAL

\* Option<usize> with the caller's buffer: some is FALSE for None.
Wrote(st) == [some |-> ~st.none, n |-> IF st.none THEN 0 ELSE st.w, buf |-> st.out]

\* escape_into with the test of the bytes to escape as a parameter.
EscapeWith(s, cap, NeedsEscape(_)) ==
  LET Body(st) ==
        IF NeedsEscape(s[st.i])
        THEN IF st.w + 1 >= cap THEN [st EXCEPT !.done = TRUE, !.none = TRUE]
             ELSE [st EXCEPT
                     !.out = Overwrite(@, st.w,
                                       <<BSL, IF s[st.i] = LF THEN "n" ELSE s[st.i]>>),
                     !.w = @ + 2, !.i = @ + 1]
        ELSE IF st.w >= cap THEN [st EXCEPT !.done = TRUE, !.none = TRUE]
             ELSE [st EXCEPT !.out = Overwrite(@, st.w, <<s[st.i]>>),
                             !.w = @ + 1, !.i = @ + 1]
  IN Wrote(Loop(Body, [i |-> 1, done |-> FALSE, none |-> FALSE, w |-> 0,
                       out |-> Rep(FILL, cap)], Len(s), Len(s)))

\* An escaper that leaves the backslash alone.
EscapeIntoKeepBackslash(s, cap) == EscapeWith(s, cap, LAMBDA b : b \in STRUCTURAL \ {BSL})

escape_into(s, cap) == EscapeWith(s, cap, needs_escape)

\* The bytes that make a recognized escape after a backslash.
Recognized == {"|", "[", "]", ";", ",", "{", "}", "#", "@", "^", BSL, "n"}

\* unescape_into; unknown is what is written for the backslash of an
\* unrecognized escape.
UnescapeWith(s, cap, unknown) ==
  LET Body(st) ==
        IF st.w >= cap
        THEN [st EXCEPT !.done = TRUE, !.none = TRUE]
        ELSE IF s[st.i] = BSL /\ st.i + 1 <= Len(s)
        THEN IF s[st.i + 1] \in Recognized
             THEN [st EXCEPT
                     !.out = Overwrite(@, st.w,
                                       <<IF s[st.i + 1] = "n" THEN LF ELSE s[st.i + 1]>>),
                     !.w = @ + 1, !.i = @ + 2]
             ELSE [st EXCEPT !.out = Overwrite(@, st.w, unknown),
                             !.w = @ + Len(unknown), !.i = @ + 1]
        ELSE [st EXCEPT !.out = Overwrite(@, st.w, <<s[st.i]>>),
                        !.w = @ + 1, !.i = @ + 1]
  IN Wrote(Loop(Body, [i |-> 1, done |-> FALSE, none |-> FALSE, w |-> 0,
                       out |-> Rep(FILL, cap)], Len(s), Len(s)))

\* An unescaper that drops the backslash of an unrecognized escape.
UnescapeIntoDropUnknown(s, cap) == UnescapeWith(s, cap, << >>)

unescape_into(s, cap) == UnescapeWith(s, cap, <<BSL>>)

\* The bytes written by a call that returned Some(n).
Unwrapped(r) == SubSeq(r.buf, 1, r.n)

-----------------------------------------------------------------------------
(* Strings escaped and unescaped *)

MaxEscLen == 3   \* the longest string over EscBytes handed to the escaper

EscBytes == {"a", "n", "z", BSL, "|", LF, "]"}

\* Short strings over EscBytes, every single byte of the frame alphabet that
\* matters, and the text of the test unescape_all_sequences.
EscStrings ==
  SeqsUpTo(EscBytes, MaxEscLen)
  \cup {<<b>> : b \in STRUCTURAL \cup Recognized \cup {"0", "=", ":", " "}}
  \cup {<<BSL, b>> : b \in STRUCTURAL \cup Recognized \cup {"0", "=", ":", " "}}
  \cup {<<"a", "|", "b", "[", "c", "]", "d", ";", "e", ",", "f", "{", "g", "}", "h",
          "#", "i", "@", "j", "^", "k", BSL, "l", LF, "m">>}

Escape ==
  /\ pc = "idle"
  /\ \E s \in EscStrings : \E cap \in {2 * Len(s) - 1, 2 * Len(s), 2 * Len(s) + 1} :
       /\ cap >= 0
       /\ input' = Tup(s)
       /\ bufcap' = cap
       /\ \E r \in {escape_into(Tup(s), cap)} :
            output' = [ok |-> r.some, err |-> "None", n |-> r.n, buf |-> r.buf]
  /\ pc' = "escaped"
  /\ UNCHANGED <<shape, frame>>
  /\ UNCHANGED secureVars

\* The escaped bytes are unescaped into a buffer as long as they are.
Unescape ==
  /\ pc = "escaped"
  /\ output.ok
  /\ frame' = Ok(unescape_into(Written(output), output.n))
  /\ pc' = "unescaped"
  /\ UNCHANGED <<shape, input, bufcap, output>>
  /\ UNCHANGED secureVars

\* Any string is unescaped into a buffer as long as it is, or one byte shorter.
UnescapeRaw ==
  /\ pc = "idle"
  /\ \E x \in EscStrings : \E cap \in {Len(x) - 1, Len(x)} :
       /\ cap >= 0
       /\ input' = Tup(x)
       /\ bufcap' = cap
       /\ frame' = Ok(unescape_into(Tup(x), cap))
  /\ pc' = "raw_unescaped"
  /\ UNCHANGED <<shape, output>>
  /\ UNCHANGED secureVars

NextEscape == Escape \/ Unescape \/ UnescapeRaw

SpecEscape == Init /\ [][NextEscape]_vars

\* What the specification writes for one byte of the string.
EscapedByte(b) ==
  IF b = LF THEN <<BSL, "n">>
  ELSE IF b \in {"|", "[", "]", ";", ",", "{", "}", "#", "@", "^", BSL} THEN <<BSL, b>>
  ELSE <<b>>

\* C21: escape_into of a string into a buffer of at least 2 * len bytes
\* succeeds, writes every structural byte with a backslash before it and the
\* newline as backslash-n, and unescape_into of what it wrote is the string.
C21_EscapeRoundTrip ==
  /\ (pc \in {"escaped", "unescaped"} /\ bufcap >= 2 * Len(input)) =>
       /\ output.ok
       /\ Written(output) = Flatten([k \in 1..Len(input) |-> EscapedByte(input[k])])
  /\ pc = "unescaped" =>
       /\ frame.val.some
       /\ Unwrapped(frame.val) = input

C21_Witness ==
  /\ pc = "unescaped"
  /\ input = <<BSL, "n", LF>>
  /\ bufcap = 6
  /\ Written(output) = <<BSL, BSL, "n", BSL, "n">>
  /\ Unwrapped(frame.val) = input

C21_WitnessAll ==
  /\ pc = "unescaped"
  /\ Len(input) = 25
  /\ output.n = 37
  /\ Unwrapped(frame.val) = input

C21_WitnessTooSmall == pc = "escaped" /\ bufcap = 2 * Len(input) - 1 /\ ~output.ok

\* C22: unescape_into copies an unrecognized escape and a lone backslash at
\* the end unchanged: it is the identity on an input with no backslash
\* followed by one of the 12 escape characters, and never writes more bytes
\* than the input has.
C22_UnescapeVerbatim ==
  (pc = "raw_unescaped" /\ bufcap = Len(input)) =>
    /\ frame.val.some
    /\ frame.val.n <= Len(input)
    /\ (\A k \in 1..(Len(input) - 1) :
          ~(input[k] = BSL
            /\ input[k + 1] \in {"|", "[", "]", ";", ",", "{", "}", "#", "@", "^", BSL, "n"}))
         => Unwrapped(frame.val) = input

C22_Witness ==
  /\ pc = "raw_unescaped"
  /\ input = <<"a", BSL, "z">>
  /\ bufcap = 3
  /\ Unwrapped(frame.val) = input

C22_WitnessTrailing ==
  /\ pc = "raw_unescaped"
  /\ input = <<"a", "z", BSL>>
  /\ bufcap = 3
  /\ Unwrapped(frame.val) = input

C22_WitnessShorter ==
  /\ pc = "raw_unescaped"
  /\ input = <<BSL, "|", BSL>>
  /\ bufcap = 3
  /\ Unwrapped(frame.val) = <<"|", BSL>>

-----------------------------------------------------------------------------
(* Number texts validated and parsed *)

MaxNumLen == 5   \* the longest number text over NumBytes

NumBytes == {"-", "0", "1", "5", ".", "+"}

NumStrings ==
  SeqsUpTo(NumBytes, MaxNumLen)
  \cup {<<"-", "1", "5", ".", "3">>, <<"1", "e", "5">>, <<" ", "1">>, <<"1", LF>>,
        <<"0", "x", "1">>, <<"1", ",", "5">>,
        <<"1", "2", "3", "4", "5", "6", "7", "8", "9", "0", "1", "2", "3", "4", "5",
          "6", "7", "8", "9", "0">>}

ReceiveNumber ==
  /\ pc = "idle"
  /\ \E num \in NumStrings :
       /\ shape' = [method |-> "Number", num |-> Tup(num)]
       /\ input' = <<"a", ":", "=">> \o Tup(num)
  /\ pc' = "number_received"
  /\ UNCHANGED <<frame, bufcap, output>>
  /\ UNCHANGED secureVars

ValidateNumber ==
  /\ pc = "number_received"
  /\ frame' = validate_number(shape.num)
  /\ pc' = "number_validated"
  /\ UNCHANGED <<shape, input, bufcap, output>>
  /\ UNCHANGED secureVars

\* The number as the value of the variable a.
ParseNumber ==
  /\ pc = "number_received"
  /\ frame' = parse_variable(input)
  /\ pc' = "number_parsed"
  /\ UNCHANGED <<shape, input, bufcap, output>>
  /\ UNCHANGED secureVars

NextNumber == ReceiveNumber \/ ValidateNumber \/ ParseNumber

SpecNumber == Init /\ [][NextNumber]_vars

\* s has the form -?(0|[1-9][0-9]*)(\.[0-9]+)?: a is the length of the sign
\* and b the position of the last digit of the integer part.
NumberForm(s) ==
  \E a \in 0..1, b \in 1..Len(s) :
    /\ a = 1 => s[1] = "-"
    /\ b > a
    /\ \A k \in (a + 1)..b : s[k] \in {"0", "1", "2", "3", "4", "5", "6", "7", "8", "9"}
    /\ b - a = 1 \/ s[a + 1] # "0"
    /\ \/ b = Len(s)
       \/ /\ b + 2 <= Len(s)
          /\ s[b + 1] = "."
          /\ \A k \in (b + 2)..Len(s) :
               s[k] \in {"0", "1", "2", "3", "4", "5", "6", "7", "8", "9"}

\* C23: validate_number accepts exactly the texts of the form optional minus,
\* `0` or a non-zero digit and digits, optionally a dot and at least one
\* digit; every other text is rejected with InvalidVariable; an accepted
\* number is kept as its text.
C23_NumberGrammar ==
  /\ pc = "number_validated" =>
       IF NumberForm(shape.num) THEN frame.ok
       ELSE ~frame.ok /\ frame.err = "InvalidVariable"
  /\ pc = "number_parsed" =>
       IF NumberForm(shape.num)
       THEN /\ frame.ok
            /\ frame.val.variable.value = [tag |-> "Number", s |-> shape.num]
       ELSE ~frame.ok /\ frame.err = "InvalidVariable"

C23_Witness ==
  /\ pc = "number_parsed"
  /\ shape.num = <<"-", "1", "5", ".", "3">>
  /\ frame.ok
  /\ frame.val.variable.value.s = shape.num

C23_WitnessMinusZero == pc = "number_validated" /\ shape.num = <<"-", "0">> /\ frame.ok

C23_WitnessLeadingZero ==
  pc = "number_validated" /\ shape.num = <<"0", "1">> /\ frame.err = "InvalidVariable"

C23_WitnessTrailingDot ==
  pc = "number_validated" /\ shape.num = <<"1", ".">> /\ frame.err = "InvalidVariable"

C23_WitnessEmpty ==
  pc = "number_parsed" /\ shape.num = << >> /\ frame.err = "InvalidVariable"

-----------------------------------------------------------------------------
(* Variable texts searched for their operator *)

MaxOpLen == 5   \* the longest variable text over OpBytes

OpBytes == {"a", "1", ":", "?", "@", "=", BSL}

ReceiveOperator ==
  /\ pc = "idle"
  /\ \E text \in SeqsUpTo(OpBytes, MaxOpLen) :
       /\ shape' = [method |-> "Operator"]
       /\ input' = Tup(text)
  /\ pc' = "operator_received"
  /\ UNCHANGED <<frame, bufcap, output>>
  /\ UNCHANGED secureVars

FindOperator ==
  /\ pc = "operator_received"
  /\ frame' = find_operator(input)
  /\ pc' = "operator_found"
  /\ UNCHANGED <<shape, input, bufcap, output>>
  /\ UNCHANGED secureVars

ParseOperator ==
  /\ pc = "operator_received"
  /\ frame' = parse_variable(input)
  /\ pc' = "operator_parsed"
  /\ UNCHANGED <<shape, input, bufcap, output>>
  /\ UNCHANGED secureVars

NextOperator == ReceiveOperator \/ FindOperator \/ ParseOperator

SpecOperator == Init /\ [][NextOperator]_vars

\* The byte at i is not escaped: the backslashes just before it are even in
\* number.
Unescaped(s, i) ==
  \E j \in 0..(i - 1) :
    /\ \A k \in (j + 1)..(i - 1) : s[k] = BSL
    /\ j = 0 \/ s[j] # BSL
    /\ (i - 1 - j) % 2 = 0

\* The positions of the unescaped two-byte operators and of the unescaped `=`.
TwoByteOps(s) ==
  {i \in 1..(Len(s) - 1) : s[i] \in {":", "?", "@"} /\ s[i + 1] = "=" /\ Unescaped(s, i)}
OneByteOps(s) == {i \in 1..Len(s) : s[i] = "=" /\ Unescaped(s, i)}

OperatorOfByte(b) == IF b = ":" THEN "Number" ELSE IF b = "?" THEN "Boolean" ELSE "Location"

\* C24: when the text holds an unescaped `:=`, `?=` or `@=`, the first of them
\* is the operator and the text before it is the name; the String operator is
\* chosen only when there is no unescaped two-byte operator and there is an
\* unescaped `=`; an escaped byte is never the operator.
C24_OperatorDiscovery ==
  pc = "operator_found" =>
    IF TwoByteOps(input) # {}
    THEN /\ frame.ok
         /\ frame.op_pos = Least(TwoByteOps(input))
         /\ frame.op_len = 2
         /\ frame.operator = OperatorOfByte(input[Least(TwoByteOps(input))])
    ELSE IF OneByteOps(input) # {}
    THEN /\ frame.ok
         /\ frame.op_pos = Least(OneByteOps(input))
         /\ frame.op_len = 1
         /\ frame.operator = "String"
    ELSE ~frame.ok

\* C24, amended: the operator is the leftmost unescaped `:=`, `?=`, `@=` or
\* `=` of the text, whichever comes first, and the text before it is the
\* name; the String operator is chosen when the leftmost unescaped operator
\* is a single `=`, also when a two-byte operator follows it; an escaped byte
\* is never the operator; a text without an unescaped operator is rejected.
C24_LeftmostOperator ==
  /\ pc = "operator_found" =>
       IF TwoByteOps(input) \cup OneByteOps(input) = {} THEN ~frame.ok
       ELSE /\ frame.ok
            /\ frame.op_pos = Least(TwoByteOps(input) \cup OneByteOps(input))
            /\ frame.op_len = IF frame.op_pos \in TwoByteOps(input) THEN 2 ELSE 1
            /\ frame.operator = IF frame.op_pos \in TwoByteOps(input)
                                THEN OperatorOfByte(input[frame.op_pos]) ELSE "String"
  /\ (pc = "operator_parsed" /\ frame.ok) =>
       /\ TwoByteOps(input) \cup OneByteOps(input) # {}
       /\ frame.val.variable.name
            = SubSeq(input, 1, Least(TwoByteOps(input) \cup OneByteOps(input)) - 1)
       /\ frame.val.variable.operator
            = IF Least(TwoByteOps(input) \cup OneByteOps(input)) \in TwoByteOps(input)
              THEN OperatorOfByte(input[Least(TwoByteOps(input))]) ELSE "String"

C24_Witness ==
  /\ pc = "operator_found"
  /\ input = <<"a", "=", "1", ":", "=">>
  /\ frame.ok
  /\ frame.op_pos = 2
  /\ frame.operator = "String"

C24_WitnessEscaped ==
  /\ pc = "operator_found"
  /\ input = <<"a", BSL, "?", "=", "1">>
  /\ frame.op_pos = 4
  /\ frame.operator = "String"

C24_WitnessTwoByte ==
  /\ pc = "operator_parsed"
  /\ input = <<"a", "1", ":", "=", "1">>
  /\ frame.ok
  /\ frame.val.variable.name = <<"a", "1">>
  /\ frame.val.variable.operator = "Number"

C24_WitnessParsedString ==
  /\ pc = "operator_parsed"
  /\ input = <<"a", "=", ":", "=", "1">>
  /\ frame.ok
  /\ frame.val.variable.name = <<"a">>
  /\ frame.val.variable.value = [tag |-> "String", s |-> <<":", "=", "1">>]

-----------------------------------------------------------------------------
(* Frames with input left over *)

\* What is left over: bytes after the closing bracket, an empty item between
\* two semicolons, or a further field.
LeftoverTails == {<<"z">>, <<"]">>, <<" ">>, <<"[", "y", ":", "=", "2", "]">>}
LeftoverFields == {<< >>, <<"e">>, <<"[", "a", "]">>}

LeftoverShape(method, seq, kind, extra, nl) ==
  [method |-> method, seq |-> seq, kind |-> kind, extra |-> extra, nl |-> nl]

LeftoverShapes ==
  {LeftoverShape(method, seq, "none", << >>, nl) :
     method \in {"Push", "Pull", "Ping"}, seq \in {None, Some(<<"7">>)}, nl \in BOOLEAN}
  \cup {LeftoverShape(method, seq, "tail", extra, nl) :
          method \in {"Push", "Pull"}, seq \in {None, Some(<<"7">>)},
          extra \in LeftoverTails, nl \in BOOLEAN}
  \cup {LeftoverShape(method, seq, "empty_item", << >>, nl) :
          method \in {"Push", "Pull"}, seq \in {None, Some(<<"7">>)}, nl \in BOOLEAN}
  \cup {LeftoverShape(method, seq, "field", extra, nl) :
          method \in {"Push", "Pull", "Ping"}, seq \in {None, Some(<<"7">>)},
          extra \in LeftoverFields, nl \in BOOLEAN}

LeftoverText(sh) ==
  LET item == IF sh.method = "Push" THEN <<"x", ":", "=", "1">> ELSE <<"x">>
      head == MethodStr(sh.method)
              \o (IF sh.seq # None THEN <<"|", "!">> \o sh.seq[1] ELSE << >>)
              \o <<"|">> \o AUTH \o <<"|">> \o SERIAL
      block == IF sh.method = "Ping" THEN << >>
               ELSE IF sh.kind = "empty_item"
               THEN <<"|", "[">> \o item \o <<";", ";">> \o item \o <<"]">>
               ELSE <<"|", "[">> \o item \o <<"]">>
      rest == IF sh.kind = "tail" THEN sh.extra
              ELSE IF sh.kind = "field" THEN <<"|">> \o sh.extra
              ELSE << >>
  IN head \o block \o rest \o (IF sh.nl THEN <<LF>> ELSE << >>)

ReceiveLeftover ==
  /\ pc = "idle"
  /\ \E sh \in LeftoverShapes :
       /\ shape' = sh
       /\ input' = LeftoverText(sh)
  /\ pc' = "leftover_received"
  /\ UNCHANGED <<frame, bufcap, output>>
  /\ UNCHANGED secureVars

ParseLeftover ==
  /\ pc = "leftover_received"
  /\ frame' = parse_uplink(input)
  /\ pc' = "leftover_parsed"
  /\ UNCHANGED <<shape, input, bufcap, output>>
  /\ UNCHANGED secureVars

NextLeftover == ReceiveLeftover \/ ParseLeftover

SpecLeftover == Init /\ [][NextLeftover]_vars

\* C25: parse_uplink fails on bytes after the closing bracket of the variable
\* block, on an empty item between two semicolons, on a further field after
\* a PUSH or PULL body and on any field after the serial of a PING frame.
C25_NoUnconsumedInput ==
  pc = "leftover_parsed" => (frame.ok <=> shape.kind = "none")

\* The one leftover parse_uplink does reject: bytes after the closing
\* bracket of a PULL body.
C25_PullTailRejected ==
  (pc = "leftover_parsed" /\ shape.method = "Pull" /\ shape.kind = "tail") => ~frame.ok

-----------------------------------------------------------------------------
(* Frames built into buffers of every length, and single writes *)

BuildSlack == 2     \* how far beyond the encoding the buffer lengths go
MaxWriterCap == 4   \* the longest buffer of the single writes

\* Well-formed frames by their encodings: the frame of a text is what the
\* parser returns for it.
BuildUplinkTexts ==
  {UplinkText(UplinkShape(method, seq, mods, items, "none", FALSE)) :
     method \in {"Push"}, seq \in {None, Some(<<"7">>)},
     mods \in {<< >>, <<TsTok>>, <<GroupTok, MetaTok>>},
     items \in (SeqsUpTo(ItemTexts \ {<< >>}, MaxItems) \ {<< >>})}
  \cup {UplinkText(UplinkShape("Pull", None, << >>, <<<<"a">>, <<"b", "2">>>>, "none", FALSE)),
        UplinkText(UplinkShape("Ping", Some(<<"7">>), << >>, << >>, "none", FALSE)),
        MethodStr("Push") \o <<"|">> \o AUTH \o <<"|">> \o SERIAL \o <<"|", ">", "x", "0", "a">>}

BuildAckTexts ==
  {AckText(AckShape(seq, status, detail, FALSE)) :
     seq \in {None, Some(<<"4", "2">>)}, status \in {"Ok", "Pong", "Cmd", "Err"},
     detail \in {None, Some(<<"7">>), Some(<<"[", "a", ";", "b", "]">>), Some(<<"x">>)}}

\* The uplink text without METHOD|AUTH| (and without !SEQ|).
HeadlessPart(text) ==
  SubSeq(text, FirstStop(text, 1, LAMBDA i : text[i] = "s"), Len(text))

BuildCalls ==
  {[builder |-> "build_uplink", frame |-> parse_uplink(t).val, text |-> t] :
     t \in BuildUplinkTexts}
  \cup {[builder |-> "build_headless", frame |-> parse_uplink(t).val,
         text |-> HeadlessPart(t)] : t \in BuildUplinkTexts}
  \cup {[builder |-> "build_ack", frame |-> parse_ack(t).val, text |-> t] :
          t \in BuildAckTexts}

Build ==
  /\ pc = "idle"
  /\ \E c \in BuildCalls : \E cap \in 0..(Len(c.text) + BuildSlack) :
       /\ shape' = [method |-> "Build", builder |-> c.builder, text |-> c.text]
       /\ bufcap' = cap
       /\ output' = IF c.builder = "build_uplink" THEN build_uplink(c.frame, cap)
                    ELSE IF c.builder = "build_headless"
                    THEN build_headless(c.frame.method, c.frame, cap)
                    ELSE build_ack(c.frame, cap)
  /\ pc' = "built"
  /\ UNCHANGED <<input, frame>>
  /\ UNCHANGED secureVars

\* A writer over a fresh buffer; output holds the writer, shape the last
\* call with the writer before it.
NewWriter ==
  /\ pc = "idle"
  /\ \E cap \in 0..MaxWriterCap :
       /\ bufcap' = cap
       /\ output' = FrameWriter_new(cap)
       /\ shape' = [method |-> "Write", call |-> "new", before |-> FrameWriter_new(cap)]
  /\ pc' = "writing"
  /\ UNCHANGED <<input, frame>>
  /\ UNCHANGED secureVars

WriteBytes ==
  /\ pc = "writing"
  /\ output.ok
  /\ \E data \in {<< >>, <<"a">>, <<"b", "c">>, <<"d", "e", "f">>} :
       /\ output' = write_bytes(output, data)
       /\ shape' = [method |-> "Write", call |-> "write_bytes", before |-> output]
  /\ UNCHANGED <<pc, input, frame, bufcap>>
  /\ UNCHANGED secureVars

WriteByte ==
  /\ pc = "writing"
  /\ output.ok
  /\ output' = write_byte(output, "|")
  /\ shape' = [method |-> "Write", call |-> "write_byte", before |-> output]
  /\ UNCHANGED <<pc, input, frame, bufcap>>
  /\ UNCHANGED secureVars

WriteU32 ==
  /\ pc = "writing"
  /\ output.ok
  /\ \E value \in {U32Zero, U32(0, 7), U32(0, 42), U32(1, 0)} :
       /\ output' = write_u32(output, value)
       /\ shape' = [method |-> "Write", call |-> "write_u32", before |-> output]
  /\ UNCHANGED <<pc, input, frame, bufcap>>
  /\ UNCHANGED secureVars

NextBuild == Build \/ NewWriter \/ WriteBytes \/ WriteByte \/ WriteU32

SpecBuild == Init /\ [][NextBuild]_vars

\* C26: a builder returns Ok(n) with the n bytes of the encoding when the
\* buffer holds at least n bytes and BufferTooSmall when it is shorter, and
\* no byte at index n or beyond is modified; after every write the cursor is
\* at most the buffer length, a failed write leaves the cursor and the buffer
\* as they were, and a successful write changes only the bytes it wrote.
C26_BuildBounds ==
  /\ pc = "built" =>
       /\ Len(output.buf) = bufcap
       /\ IF bufcap >= Len(shape.text)
          THEN /\ output.ok
               /\ output.n = Len(shape.text)
               /\ Written(output) = shape.text
               /\ \A k \in (Len(shape.text) + 1)..bufcap : output.buf[k] = FILL
          ELSE ~output.ok /\ output.err = "BufferTooSmall"
  /\ pc = "writing" =>
       /\ output.pos <= Len(output.buf)
       /\ Len(output.buf) = bufcap
       /\ output.pos >= shape.before.pos
       /\ ~output.ok => (output.pos = shape.before.pos /\ output.buf = shape.before.buf)
       /\ \A k \in 1..bufcap :
            (k <= shape.before.pos \/ k > output.pos) => output.buf[k] = shape.before.buf[k]

C26_Witness ==
  /\ pc = "built"
  /\ shape.builder = "build_uplink"
  /\ bufcap = Len(shape.text)
  /\ output.ok
  /\ output.n = bufcap
  /\ Len(shape.text) > 60

C26_WitnessShort ==
  /\ pc = "built"
  /\ shape.builder = "build_ack"
  /\ bufcap = Len(shape.text) - 1
  /\ output.err = "BufferTooSmall"

C26_WitnessHeadless ==
  /\ pc = "built"
  /\ shape.builder = "build_headless"
  /\ bufcap = Len(shape.text) + 2
  /\ output.ok
  /\ output.buf[bufcap] = FILL

C26_WitnessFailedWrite ==
  /\ pc = "writing"
  /\ shape.call = "write_u32"
  /\ ~output.ok
  /\ output.pos = 3
  /\ bufcap = 4

-----------------------------------------------------------------------------
(* An InlineVec under push, pop and clear *)

MaxVecCap == 3   \* the largest capacity N
MaxVecOps == 5   \* the longest sequence of operations

VecValues == {"a", "b"}

\* frame.val holds the vector (its initialized elements), bufcap its capacity,
\* shape the operations made so far and what the last one returned.
NewVec ==
  /\ pc = "idle"
  /\ \E N \in 1..MaxVecCap : bufcap' = N
  /\ frame' = Ok(<< >>)
  /\ shape' = [method |-> "Vec", ops |-> << >>, ret |-> "new"]
  /\ pc' = "vec"
  /\ UNCHANGED <<input, output>>
  /\ UNCHANGED secureVars

Push ==
  /\ pc = "vec"
  /\ Len(shape.ops) < MaxVecOps
  /\ \E value \in VecValues : \E r \in {VecPush(frame.val, value, bufcap)} :
       /\ frame' = Ok(r.vec)
       /\ shape' = [method |-> "Vec", ops |-> Append(shape.ops, <<"push", value>>),
                    ret |-> IF r.ok THEN <<"Ok">> ELSE <<"Err", value>>]
  /\ UNCHANGED <<pc, input, bufcap, output>>
  /\ UNCHANGED secureVars

Pop ==
  /\ pc = "vec"
  /\ Len(shape.ops) < MaxVecOps
  /\ \E r \in {VecPop(frame.val)} :
       /\ frame' = Ok(r.vec)
       /\ shape' = [method |-> "Vec", ops |-> Append(shape.ops, <<"pop">>),
                    ret |-> IF r.some THEN <<"Some", r.value>> ELSE <<"None">>]
  /\ UNCHANGED <<pc, input, bufcap, output>>
  /\ UNCHANGED secureVars

Clear ==
  /\ pc = "vec"
  /\ Len(shape.ops) < MaxVecOps
  /\ frame' = Ok(VecClear(frame.val))
  /\ shape' = [method |-> "Vec", ops |-> Append(shape.ops, <<"clear">>), ret |-> <<"()">>]
  /\ UNCHANGED <<pc, input, bufcap, output>>
  /\ UNCHANGED secureVars

NextVec == NewVec \/ Push \/ Pop \/ Clear

SpecVec == Init /\ [][NextVec]_vars

\* The unbounded list after the first k operations, every push at length N
\* dropped.
ListAfter(ops, k0, N) ==
  LET RECURSIVE After(_)
      After(k) ==
        IF k = 0 THEN << >>
        ELSE LET before == After(k - 1)
             IN IF ops[k][1] = "push"
                THEN (IF Len(before) = N THEN before ELSE before \o <<ops[k][2]>>)
                ELSE IF ops[k][1] = "pop"
                THEN (IF before = << >> THEN before
                      ELSE SubSeq(before, 1, Len(before) - 1))
                ELSE << >>
  IN After(k0)

\* C27: after any sequence of push, pop and clear the length is at most N and
\* the contents are those of the unbounded list with the pushes at length N
\* dropped; push on a full vector returns Err with the value, pop on an empty
\* vector returns None, and neither changes anything; clear empties it.
C27_InlineVecRefinesList ==
  pc = "vec" =>
    /\ Len(frame.val) <= bufcap
    /\ frame.val = ListAfter(shape.ops, Len(shape.ops), bufcap)
    /\ shape.ops # << >> =>
         LET last == shape.ops[Len(shape.ops)]
             before == ListAfter(shape.ops, Len(shape.ops) - 1, bufcap)
         IN /\ (last[1] = "push" /\ Len(before) = bufcap)
                 => (shape.ret = <<"Err", last[2]>> /\ frame.val = before)
            /\ (last[1] = "push" /\ Len(before) < bufcap) => shape.ret = <<"Ok">>
            /\ (last[1] = "pop" /\ before = << >>)
                 => (shape.ret = <<"None">> /\ frame.val = before)
            /\ (last[1] = "pop" /\ before # << >>)
                 => shape.ret = <<"Some", before[Len(before)]>>
            /\ last[1] = "clear" => frame.val = << >>

C27_Witness ==
  /\ pc = "vec"
  /\ bufcap = 2
  /\ shape.ops = <<<<"push", "a">>, <<"push", "b">>, <<"push", "a">>, <<"pop">>, <<"pop">>>>
  /\ shape.ret = <<"Some", "a">>
  /\ frame.val = << >>

C27_WitnessFull ==
  /\ pc = "vec"
  /\ bufcap = 1
  /\ shape.ops = <<<<"push", "a">>, <<"push", "b">>>>
  /\ shape.ret = <<"Err", "b">>
  /\ frame.val = <<"a">>

C27_WitnessEmptyPop ==
  pc = "vec" /\ shape.ops = <<<<"push", "a">>, <<"clear">>, <<"pop">>>> /\ shape.ret = <<"None">>

-----------------------------------------------------------------------------
(* The metadata ranges of a parsed body *)

\* The MetaRanges of a StructuredBody in frame order: body_meta, then the meta
\* of each variable that has one.
BodyRanges(body) ==
  body.body_meta
  \o Flatten([i \in 1..Len(body.variables) |-> body.variables[i].meta])

\* body_metadata and variable_metadata slice the pool at [start, start + len).
RangeInPool(body, r) == r.start + r.len <= Len(body.meta_pool)

\* The ranges tile the pool: the first starts at 0, each next one where the
\* previous ended, and the last ends where the pool ends.
RangesTile(body) ==
  LET rs == BodyRanges(body)
      End(k) == IF k = 0 THEN 0 ELSE rs[k].start + rs[k].len
  IN /\ \A k \in 1..Len(rs) : rs[k].start = End(k - 1)
     /\ End(Len(rs)) = Len(body.meta_pool)

\* C28: in every StructuredBody of a successful parse each MetaRange has len
\* at least 1 and ends inside the pool, the pool holds at most 512 pairs, and
\* the ranges, body-level first and then the variables in order, are disjoint
\* and cover the pool exactly.
C28_MetaRanges ==
  (pc = "caps_parsed" /\ frame.ok /\ shape.method = "Push") =>
    LET body == frame.val.push_body[1]
        rs == BodyRanges(body)
    IN /\ body.kind = "Structured"
       /\ Len(body.meta_pool) <= MAX_TOTAL_META
       /\ \A k \in 1..Len(rs) : rs[k].len >= 1 /\ RangeInPool(body, rs[k])
       /\ \A j, k \in 1..Len(rs) :
            j < k => rs[j].start + rs[j].len <= rs[k].start
       /\ RangesTile(body)

\* A body-level block and sixteen variable blocks filled the pool to 512.
C28_Witness ==
  /\ pc = "caps_parsed" /\ frame.ok /\ shape.method = "Push"
  /\ shape.bodymeta > 0 /\ shape.last > 0
  /\ Len(frame.val.push_body[1].meta_pool) = MAX_TOTAL_META
  /\ Len(BodyRanges(frame.val.push_body[1])) = PoolBlocks + 1
  /\ frame.val.push_body[1].body_meta # << >>

\* A frame with variables and no metadata left the pool empty.
C28_WitnessEmptyPool ==
  /\ pc = "caps_parsed" /\ frame.ok /\ shape.method = "Push"
  /\ Len(frame.val.push_body[1].variables) > 1
  /\ BodyRanges(frame.val.push_body[1]) = << >>
  /\ frame.val.push_body[1].meta_pool = << >>

-----------------------------------------------------------------------------
(* Plaintext frames handed to the envelope functions *)

MaxAckTail == 2   \* length of the short tails after ACK

\* The tails after the bytes ACK: short ones, and ones that bring the input
\* to the lengths open_envelope compares with.
AckTailLens ==
  (0..MaxAckTail)
  \cup {HEADER_SIZE - 4, HEADER_SIZE - 3, HEADER_SIZE - 3 + CCM_TAG_SIZE,
        HEADER_SIZE - 3 + GCM_TAG_SIZE, HEADER_SIZE - 2 + GCM_TAG_SIZE}

AckTailBytes == {0, 124, 255}

\* What the receiver of the bytes data learns with the key.
Routing(data, key) ==
  [key |-> key, open |-> open_envelope(data, key),
   header |-> parse_envelope_header(data), is_envelope |-> is_envelope(data)]

\* A frame built by build_uplink or build_ack into a buffer of its length
\* goes to the transport as it is.
BuildPlain ==
  /\ pc = "idle"
  /\ \E c \in {b \in BuildCalls : b.builder # "build_headless"} :
       \E out \in {IF c.builder = "build_uplink"
                   THEN build_uplink(c.frame, Len(c.text))
                   ELSE build_ack(c.frame, Len(c.text))} :
         /\ shape' = [method |-> "Plain", builder |-> c.builder]
         /\ input' = c.text
         /\ bufcap' = Len(c.text)
         /\ output' = out
         /\ wire' = IF out.ok THEN Ok(as_bytes(Written(out))) ELSE Err(out.err)
  /\ pc' = "plain"
  /\ UNCHANGED frame
  /\ UNCHANGED <<features, sealargs, oracle, opened>>

\* Bytes that begin with ACK arrive from the transport.
ReceiveAckBytes ==
  /\ pc = "idle"
  /\ \E n \in AckTailLens, fill \in AckTailBytes :
       wire' = Ok(as_bytes(<<"A", "C", "K">>) \o Rep(fill, n))
  /\ shape' = [method |-> "Plain", builder |-> "transport"]
  /\ pc' = "plain"
  /\ UNCHANGED <<input, frame, bufcap, output>>
  /\ UNCHANGED <<features, sealargs, oracle, opened>>

\* The receiver asks is_envelope and calls open_envelope with some key.
Route ==
  /\ pc \in {"plain", "sealed"}
  /\ wire.ok
  /\ \E key \in OpenKeys : opened' = Routing(wire.val, key)
  /\ pc' = IF pc = "plain" THEN "plain_routed" ELSE "sealed_routed"
  /\ UNCHANGED <<features, sealargs, oracle, wire>>
  /\ UNCHANGED codecVars

NextPlain ==
  \/ BuildPlain
  \/ ReceiveAckBytes
  \/ SealRaw
  \/ SealUplink
  \/ SealDownlink
  \/ Route

SpecPlain == InitEnvelope /\ [][NextPlain]_vars

\* The bytes begin with ACK.
BeginsWithAck(data) ==
  Len(data) >= 3 /\ SubSeq(data, 1, 3) = <<65, 67, 75>>

\* C29: open_envelope never succeeds on a plaintext frame, whatever the key:
\* an input that begins with ACK has the reserved first byte 0x41 and is
\* rejected (as too short when it has fewer than 21 bytes, for the reserved
\* flags value otherwise), an uplink frame begins with P = 0x50, whose
\* version bits are 2, and is rejected as an unsupported version; is_envelope
\* is false on every build_ack output and true on every successful seal
\* output.
C29_PlaintextRejected ==
  /\ pc = "plain_routed" =>
       /\ ~opened.open.ok
       /\ shape.builder \in {"build_ack", "transport"} =>
            /\ BeginsWithAck(wire.val)
            /\ wire.val[1] = RESERVED_FLAGS_VALUE
            /\ ~opened.is_envelope
            /\ opened.open.err = IF Len(wire.val) < HEADER_SIZE
                                 THEN "EnvelopeTooShort" ELSE "ReservedFlagsValue"
       /\ shape.builder = "build_uplink" =>
            /\ wire.val[1] = 80
            /\ Flags_decode(wire.val[1]).ok
            /\ Flags_decode(wire.val[1]).val.version = 2
            /\ opened.open.err = "UnsupportedVersion"
  /\ pc = "sealed_routed" => opened.is_envelope

\* An uplink frame was offered with a key of the length its first byte asks
\* for and was rejected.
C29_Witness ==
  /\ pc = "plain_routed" /\ shape.builder = "build_uplink"
  /\ opened.key.len = key_size(Flags_decode(wire.val[1]).val.cipher)
  /\ opened.open.err = "UnsupportedVersion"

\* Bytes that begin with ACK and are long enough for a header and a tag were
\* rejected for their first byte.
C29_WitnessAckBytes ==
  /\ pc = "plain_routed" /\ shape.builder = "transport"
  /\ Len(wire.val) > HEADER_SIZE + GCM_TAG_SIZE
  /\ opened.open.err = "ReservedFlagsValue" /\ ~opened.is_envelope

\* A built ACK frame was rejected and told apart from an envelope.
C29_WitnessBuiltAck ==
  /\ pc = "plain_routed" /\ shape.builder = "build_ack"
  /\ ~opened.open.ok /\ ~opened.is_envelope

\* A sealed envelope of the suite with id 2 was taken for an envelope; the
\* seal that would have had 0x41 as its flags byte failed.
C29_WitnessSealed ==
  /\ pc = "sealed_routed" /\ sealargs.suite = "Aes256Ccm" /\ opened.is_envelope
C29_WitnessReservedSeal ==
  /\ pc = "sealed" /\ sealargs.suite = "Aes256Ccm" /\ sealargs.method = "Pull"
  /\ ~wire.ok /\ wire.err = "ReservedFlagsValue"

-----------------------------------------------------------------------------
(* Inner frames parsed headless and as uplink frames *)

MaxInnerPieces == 3   \* pieces of the inner text, joined by pipes

InnerPieces ==
  {<<"s", "1">>, <<"[", "x", "=", "1", "]">>, <<">", "x", "0", "a">>, <<"[", "a", "]">>,
   <<"e">>, <<"[", "x", "=", "a">>, <<"b", "]">>, <<"[", "x", "=", "a", BSL>>}

InnerTexts ==
  {JoinWith(ps, <<"|">>) : ps \in SeqsUpTo(InnerPieces, MaxInnerPieces) \ {<< >>}}

ReceiveInner ==
  /\ pc = "idle"
  /\ \E method \in {"Push", "Pull", "Ping"}, s \in InnerTexts :
       /\ shape' = [method |-> method, inner |-> s]
       /\ input' = MethodStr(method) \o <<"|">> \o AUTH \o <<"|">> \o s
  /\ pc' = "inner_received"
  /\ UNCHANGED <<frame, bufcap, output>>
  /\ UNCHANGED secureVars

\* The inner text goes to parse_headless with its method, the whole frame to
\* parse_uplink.
ParseInner ==
  /\ pc = "inner_received"
  /\ frame' = [headless |-> parse_headless(shape.method, shape.inner),
               uplink |-> parse_uplink(input)]
  /\ pc' = "inner_parsed"
  /\ UNCHANGED <<shape, input, bufcap, output>>
  /\ UNCHANGED secureVars

NextInner == ReceiveInner \/ ParseInner

SpecInner == Init /\ [][NextInner]_vars

\* C30: parse_headless(M, s) succeeds exactly when parse_uplink of M|A|s
\* succeeds, and both then yield the same serial, push_body and pull_body.
C30_HeadlessAgrees ==
  pc = "inner_parsed" =>
    /\ frame.headless.ok <=> frame.uplink.ok
    /\ frame.headless.ok /\ frame.uplink.ok =>
         /\ frame.headless.val.serial = frame.uplink.val.serial
         /\ frame.headless.val.push_body = frame.uplink.val.push_body
         /\ frame.headless.val.pull_body = frame.uplink.val.pull_body

\* The two parsers agree on the inner texts with as many pieces as the
\* method has fields: one for PING, two for PUSH and PULL.
C30_AgreeOnExactFields ==
  (pc = "inner_parsed"
   /\ Len(split_fields(shape.inner)) = (IF shape.method = "Ping" THEN 1 ELSE 2)) =>
    /\ frame.headless.ok <=> frame.uplink.ok
    /\ frame.headless.ok =>
         /\ frame.headless.val.serial = frame.uplink.val.serial
         /\ frame.headless.val.push_body = frame.uplink.val.push_body
         /\ frame.headless.val.pull_body = frame.uplink.val.pull_body

=============================================================================
